---- MODULE Spec2Model ----
(***************************************************************************)
(* Light-chaser firmware: the game state machine (game.cpp), the button    *)
(* edge detector, the animation engine and the EEPROM high-score store     *)
(* (hardware.cpp), driven by setup()/loop() (main.cpp).                    *)
(*                                                                         *)
(* Every C function is an operator from a machine state (a record holding  *)
(* the static variables, the millisecond clock, the button pin level and   *)
(* the list of hardware calls made so far in the running handler) to the   *)
(* machine state after the call.  The two actions are setup() and loop().  *)
(***************************************************************************)
EXTENDS Integers, Sequences, FiniteSets, TLC

\* ------------------------------------------------------------------ bounds
\* Milliseconds per clock step of the model: loop() iterations are spaced by
\* a multiple (possibly zero) of TickMs.
TickMs == 100
\* Number of clock steps explored after power-on.
Horizon == 36
\* Gaps between consecutive loop() iterations, in clock steps: the same
\* millisecond, the next clock step, an iteration stalled for ten steps.
Gaps == {0, 1, 10}

\* --------------------------------------------------------------- constants
NUM_LEDS == 8
TARGET_ZONE_START == 3
TARGET_ZONE_END == 4
DEBOUNCE_MS == 50
INITIAL_CHASE_SPEED == 200
MIN_CHASE_SPEED == 50
SPEED_DECREASE == 10
BULLSEYE_SCORE == 10
ADJACENT_SCORE == 5
OUTER_SCORE == 1
FREQ_TICK == 100
FREQ_HIT == 500
FREQ_BULLSEYE_1 == 800
FREQ_BULLSEYE_2 == 1000
FREQ_BULLSEYE_3 == 1200
FREQ_GAME_OVER_1 == 400
FREQ_GAME_OVER_2 == 300
FREQ_GAME_OVER_3 == 200
DURATION_BULLSEYE_NOTE == 100
DURATION_GAME_OVER_NOTE == 200
GAME_OVER_LED_FLASH_DURATION == 150
GAME_OVER_LED_FLASH_COUNT == 5
CELEBRATION_LED_DELAY == 40
CELEBRATION_SWEEPS == 3
EEPROM_MAGIC_BYTE == 165
RESULT_DWELL_MS == 300
CELEBRATION_DWELL_MS == 2000

\* Widths of the C integer types.
U8 == 256
U16 == 65536

STATE_ATTRACT == "ATTRACT"
STATE_PLAYING == "PLAYING"
STATE_RESULT == "RESULT"
STATE_CELEBRATION == "CELEBRATION"
STATE_GAME_OVER == "GAME_OVER"
GameState ==
  {STATE_ATTRACT, STATE_PLAYING, STATE_RESULT, STATE_CELEBRATION, STATE_GAME_OVER}

ANIM_IDLE == "IDLE"
ANIM_BULLSEYE == "BULLSEYE"
ANIM_CELEBRATION == "CELEBRATION"
ANIM_GAME_OVER == "GAME_OVER"

\* Pin levels of digitalRead(BUTTON_PIN): the button is wired active-low.
HIGH == TRUE
LOW == FALSE

\* ------------------------------------------------------------------- state
VARIABLES
  pc,                 \* "boot" before setup() has run, "run" afterwards
  now,                \* millis()
  pin,                \* digitalRead(BUTTON_PIN)
  eeprom,             \* the four bytes at EEPROM_HIGH_SCORE_ADDR
  current_state, current_position, chase_direction, chase_speed,
  last_chase_update, current_score, high_score, is_new_high_score,
  state_entry_time,
  last_button_state, last_debounce_time,
  anim_state, anim_step, anim_last_update, led_sweep, led_pos,
  flash_count, flash_state, led_last_update,
  log                 \* hardware and handler calls of the last setup()/loop()

vars ==
  <<pc, now, pin, eeprom, current_state, current_position, chase_direction,
    chase_speed, last_chase_update, current_score, high_score,
    is_new_high_score, state_entry_time, last_button_state,
    last_debounce_time, anim_state, anim_step, anim_last_update, led_sweep,
    led_pos, flash_count, flash_state, led_last_update, log>>

\* The machine state as one record, so that C functions compose.
Machine ==
  [now |-> now, pin |-> pin, eeprom |-> eeprom,
   current_state |-> current_state, current_position |-> current_position,
   chase_direction |-> chase_direction, chase_speed |-> chase_speed,
   last_chase_update |-> last_chase_update, current_score |-> current_score,
   high_score |-> high_score, is_new_high_score |-> is_new_high_score,
   state_entry_time |-> state_entry_time,
   last_button_state |-> last_button_state,
   last_debounce_time |-> last_debounce_time,
   anim_state |-> anim_state, anim_step |-> anim_step,
   anim_last_update |-> anim_last_update, led_sweep |-> led_sweep,
   led_pos |-> led_pos, flash_count |-> flash_count,
   flash_state |-> flash_state, led_last_update |-> led_last_update,
   log |-> log]

\* The variables after the handler, from the machine state it returns.
Store(m) ==
  /\ eeprom' = m.eeprom
  /\ current_state' = m.current_state
  /\ current_position' = m.current_position
  /\ chase_direction' = m.chase_direction
  /\ chase_speed' = m.chase_speed
  /\ last_chase_update' = m.last_chase_update
  /\ current_score' = m.current_score
  /\ high_score' = m.high_score
  /\ is_new_high_score' = m.is_new_high_score
  /\ state_entry_time' = m.state_entry_time
  /\ last_button_state' = m.last_button_state
  /\ last_debounce_time' = m.last_debounce_time
  /\ anim_state' = m.anim_state
  /\ anim_step' = m.anim_step
  /\ anim_last_update' = m.anim_last_update
  /\ led_sweep' = m.led_sweep
  /\ led_pos' = m.led_pos
  /\ flash_count' = m.flash_count
  /\ flash_state' = m.flash_state
  /\ led_last_update' = m.led_last_update
  /\ log' = m.log

\* One entry of the call log: what was called, the state (or animation) it
\* concerns, the value of current_state while it ran, and a number.
Ev(e, s, c, n) == [ev |-> e, st |-> s, cur |-> c, n |-> n]
Call(m, e, s, n) == [m EXCEPT !.log = Append(@, Ev(e, s, m.current_state, n))]

\* ------------------------------------------------------------- arithmetic
\* A uint32_t is the pair <<high half, low half>> of its 16-bit halves, so
\* that the arithmetic modulo 2^32 is exact.
U32Of(n) == <<(n \div U16) % U16, n % U16>>
Ms(t) == t[1] * U16 + t[2]

\* a + n modulo 2^32, for 0 <= n < 2^16.
U32Add(a, n) ==
  LET lo == a[2] + n
  IN <<(a[1] + (lo \div U16)) % U16, lo % U16>>

\* a - b modulo 2^32.
U32Sub(a, b) ==
  LET lo == a[2] - b[2]
      borrow == IF lo < 0 THEN 1 ELSE 0
  IN <<(a[1] - b[1] - borrow) % U16, lo % U16>>

\* a >= n on uint32_t, for 0 <= n < 2^16.
U32Ge(a, n) == a[1] > 0 \/ a[2] >= n

\* An elapsed time that does not wrap: 0 when the clock reads less than the
\* recorded time.
Elapsed_saturating(t, then) ==
  IF t[1] < then[1] \/ (t[1] = then[1] /\ t[2] < then[2])
  THEN U32Of(0)
  ELSE U32Sub(t, then)

\* now - then in uint32_t arithmetic.
Elapsed(t, then) == U32Sub(t, then)

RECURSIVE XorBits(_, _, _)
XorBits(a, b, k) ==
  IF k = 0 THEN 0
  ELSE (((a % 2) + (b % 2)) % 2) + 2 * XorBits(a \div 2, b \div 2, k - 1)
\* a ^ b on uint8_t.
Xor8(a, b) == XorBits(a, b, 8)

\* ---------------------------------------------------------- hardware.cpp
\* led_set(position, state): an out-of-range index is ignored.
led_set(m, position, state) ==
  IF position >= NUM_LEDS THEN m
  ELSE Call(m, IF state THEN "led_on" ELSE "led_off", "-", position)

led_clear_all(m) == Call(m, "led_clear_all", "-", 0)

tone(m, freq) == Call(m, "tone", "-", freq)

buzzer_tick(m) == tone(m, FREQ_TICK)

buzzer_hit(m) == tone(m, FREQ_HIT)

display_show_attract(m, hs) == Call(m, "display_attract", "-", hs)

display_show_game(m, score, hs) ==
  Call(Call(m, "display_game_score", "-", score), "display_game_high", "-", hs)

display_show_celebration(m, score) == Call(m, "display_celebration", "-", score)

\* hardware_init(): last_button_state takes the raw pin level.
hardware_init(m) == [m EXCEPT !.last_button_state = m.pin]

\* An edge detector without the debounce time check.
button_just_pressed_every_edge(m) ==
  LET cur == ~m.pin
      pressed == cur /\ ~m.last_button_state
      m1 == IF pressed
            THEN Call([m EXCEPT !.last_debounce_time = m.now], "press", "-", 0)
            ELSE m
  IN [m |-> [m1 EXCEPT !.last_button_state = cur], ret |-> pressed]

\* button_just_pressed(): the machine state after the call and the result.
button_just_pressed(m) ==
  LET cur == ~m.pin
      edge == cur /\ ~m.last_button_state
      pressed == edge /\ U32Ge(Elapsed(m.now, m.last_debounce_time), DEBOUNCE_MS)
      m1 == IF pressed
            THEN Call([m EXCEPT !.last_debounce_time = m.now], "press", "-", 0)
            ELSE m
  IN [m |-> [m1 EXCEPT !.last_button_state = cur], ret |-> pressed]

\* A clear that stores the raw pin level, not inverted.
button_clear_state_raw_level(m) ==
  [m EXCEPT !.last_button_state = m.pin, !.last_debounce_time = m.now]

button_clear_state(m) ==
  [m EXCEPT !.last_button_state = ~m.pin, !.last_debounce_time = m.now]

\* A read that validates the magic byte only.
eeprom_read_high_score_magic_only(m) ==
  LET low_byte == m.eeprom[1]
      high_byte == m.eeprom[2]
      magic == m.eeprom[3]
  IN IF magic # EEPROM_MAGIC_BYTE THEN 0
     ELSE (low_byte + high_byte * U8) % U16

\* A read that validates the record but returns the low byte only.
eeprom_read_high_score_low_only(m) ==
  LET low_byte == m.eeprom[1]
      high_byte == m.eeprom[2]
      magic == m.eeprom[3]
      checksum == m.eeprom[4]
      expected_checksum == Xor8(Xor8(low_byte, high_byte), magic)
  IN IF magic # EEPROM_MAGIC_BYTE THEN 0
     ELSE IF checksum # expected_checksum THEN 0
     ELSE low_byte

\* eeprom_read_high_score()
eeprom_read_high_score(m) ==
  LET low_byte == m.eeprom[1]
      high_byte == m.eeprom[2]
      magic == m.eeprom[3]
      checksum == m.eeprom[4]
      expected_checksum == Xor8(Xor8(low_byte, high_byte), magic)
  IN IF magic # EEPROM_MAGIC_BYTE THEN 0
     ELSE IF checksum # expected_checksum THEN 0
     ELSE (low_byte + high_byte * U8) % U16

\* EEPROM.write instead of EEPROM.update: the cell is always written.
eeprom_update_always_writes(m, addr, value) ==
  Call([m EXCEPT !.eeprom[addr + 1] = value], "eeprom_cell_write", "-", addr)

\* EEPROM.update(addr, value): the cell is written only when it differs.
eeprom_update(m, addr, value) ==
  IF m.eeprom[addr + 1] = value THEN m
  ELSE Call([m EXCEPT !.eeprom[addr + 1] = value], "eeprom_cell_write", "-", addr)

\* A save whose checksum leaves out the magic byte.
eeprom_write_high_score_plain_checksum(m, score) ==
  LET low_byte == score % U8
      high_byte == (score \div U8) % U8
      checksum == Xor8(low_byte, high_byte)
      m0 == Call(m, "eeprom_write_high_score", "-", score)
      m1 == eeprom_update(m0, 0, low_byte)
      m2 == eeprom_update(m1, 1, high_byte)
      m3 == eeprom_update(m2, 2, EEPROM_MAGIC_BYTE)
  IN eeprom_update(m3, 3, checksum)

\* eeprom_write_high_score(score)
eeprom_write_high_score(m, score) ==
  LET low_byte == score % U8
      high_byte == (score \div U8) % U8
      checksum == Xor8(Xor8(low_byte, high_byte), EEPROM_MAGIC_BYTE)
      m0 == Call(m, "eeprom_write_high_score", "-", score)
      m1 == eeprom_update(m0, 0, low_byte)
      m2 == eeprom_update(m1, 1, high_byte)
      m3 == eeprom_update(m2, 2, EEPROM_MAGIC_BYTE)
  IN eeprom_update(m3, 3, checksum)

\* --------------------------------------------- hardware.cpp: animations
\* for (i = 0; i < NUM_LEDS; i++) led_set(i, true);
RECURSIVE led_all_on(_, _)
led_all_on(m, i) ==
  IF i < NUM_LEDS THEN led_all_on(led_set(m, i, TRUE), i + 1) ELSE m

celebration_freqs == <<523, 659, 784, 1047, 1319>>
celebration_durations == <<150, 150, 150, 150, 300>>

\* A hit animation that plays its notes without counting them.
anim_bullseye_uncounted(m) ==
  IF U32Ge(Elapsed(m.now, m.anim_last_update), DURATION_BULLSEYE_NOTE)
  THEN LET m1 == [m EXCEPT !.anim_last_update = m.now]
           m2 == CASE m.anim_step = 0 -> tone(m1, FREQ_BULLSEYE_1)
                   [] m.anim_step = 1 -> tone(m1, FREQ_BULLSEYE_2)
                   [] m.anim_step = 2 -> tone(m1, FREQ_BULLSEYE_3)
                   [] OTHER -> m1
       IN IF m2.anim_step >= 3
          THEN [m |-> [m2 EXCEPT !.anim_state = ANIM_IDLE], ret |-> TRUE]
          ELSE [m |-> m2, ret |-> FALSE]
  ELSE [m |-> m, ret |-> FALSE]

\* case ANIM_BULLSEYE of animation_update()
anim_bullseye(m) ==
  IF U32Ge(Elapsed(m.now, m.anim_last_update), DURATION_BULLSEYE_NOTE)
  THEN LET m1 == [m EXCEPT !.anim_last_update = m.now]
           m2 == CASE m.anim_step = 0 -> tone(m1, FREQ_BULLSEYE_1)
                   [] m.anim_step = 1 -> tone(m1, FREQ_BULLSEYE_2)
                   [] m.anim_step = 2 -> tone(m1, FREQ_BULLSEYE_3)
                   [] OTHER -> m1
           m3 == [m2 EXCEPT !.anim_step = (@ + 1) % U8]
       IN IF m3.anim_step >= 3
          THEN [m |-> [m3 EXCEPT !.anim_state = ANIM_IDLE], ret |-> TRUE]
          ELSE [m |-> m3, ret |-> FALSE]
  ELSE [m |-> m, ret |-> FALSE]

\* A win animation that ends as soon as either channel is exhausted.
anim_celebration_either(m) ==
  LET wait == IF m.anim_step = 0 THEN 0
              ELSE celebration_durations[m.anim_step] + 50
      m1 == IF m.anim_step < 5 /\ U32Ge(Elapsed(m.now, m.anim_last_update), wait)
            THEN [tone(m, celebration_freqs[m.anim_step + 1])
                    EXCEPT !.anim_last_update = m.now,
                           !.anim_step = (@ + 1) % U8]
            ELSE m
      m2 == IF U32Ge(Elapsed(m1.now, m1.led_last_update), CELEBRATION_LED_DELAY)
            THEN LET a == [m1 EXCEPT !.led_last_update = m1.now]
                 IN IF a.led_sweep < CELEBRATION_SWEEPS
                    THEN LET b == led_set(a, a.led_pos, FALSE)
                             c == [b EXCEPT !.led_pos = (@ + 1) % U8]
                             d == IF c.led_pos >= NUM_LEDS
                                  THEN [c EXCEPT !.led_pos = 0,
                                                 !.led_sweep = (@ + 1) % U8]
                                  ELSE c
                         IN IF d.led_sweep < CELEBRATION_SWEEPS
                            THEN led_set(d, d.led_pos, TRUE)
                            ELSE led_clear_all(d)
                    ELSE a
            ELSE m1
  IN IF m2.anim_step >= 5 \/ m2.led_sweep >= CELEBRATION_SWEEPS
     THEN [m |-> [m2 EXCEPT !.anim_state = ANIM_IDLE, !.led_sweep = 0,
                            !.led_pos = 0],
           ret |-> TRUE]
     ELSE [m |-> m2, ret |-> FALSE]

\* case ANIM_CELEBRATION of animation_update()
anim_celebration(m) ==
  LET wait == IF m.anim_step = 0 THEN 0
              ELSE celebration_durations[m.anim_step] + 50
      m1 == IF m.anim_step < 5 /\ U32Ge(Elapsed(m.now, m.anim_last_update), wait)
            THEN [tone(m, celebration_freqs[m.anim_step + 1])
                    EXCEPT !.anim_last_update = m.now,
                           !.anim_step = (@ + 1) % U8]
            ELSE m
      m2 == IF U32Ge(Elapsed(m1.now, m1.led_last_update), CELEBRATION_LED_DELAY)
            THEN LET a == [m1 EXCEPT !.led_last_update = m1.now]
                 IN IF a.led_sweep < CELEBRATION_SWEEPS
                    THEN LET b == led_set(a, a.led_pos, FALSE)
                             c == [b EXCEPT !.led_pos = (@ + 1) % U8]
                             d == IF c.led_pos >= NUM_LEDS
                                  THEN [c EXCEPT !.led_pos = 0,
                                                 !.led_sweep = (@ + 1) % U8]
                                  ELSE c
                         IN IF d.led_sweep < CELEBRATION_SWEEPS
                            THEN led_set(d, d.led_pos, TRUE)
                            ELSE led_clear_all(d)
                    ELSE a
            ELSE m1
  IN IF m2.anim_step >= 5 /\ m2.led_sweep >= CELEBRATION_SWEEPS
     THEN [m |-> [m2 EXCEPT !.anim_state = ANIM_IDLE, !.led_sweep = 0,
                            !.led_pos = 0],
           ret |-> TRUE]
     ELSE [m |-> m2, ret |-> FALSE]

\* case ANIM_GAME_OVER of animation_update()
anim_game_over(m) ==
  LET m1 == IF U32Ge(Elapsed(m.now, m.anim_last_update), DURATION_GAME_OVER_NOTE)
            THEN LET a == [m EXCEPT !.anim_last_update = m.now]
                 IN IF a.anim_step < 3
                    THEN LET b == CASE a.anim_step = 0 -> tone(a, FREQ_GAME_OVER_1)
                                    [] a.anim_step = 1 -> tone(a, FREQ_GAME_OVER_2)
                                    [] OTHER -> tone(a, FREQ_GAME_OVER_3)
                         IN [b EXCEPT !.anim_step = (@ + 1) % U8]
                    ELSE a
            ELSE m
  IN IF U32Ge(Elapsed(m1.now, m1.led_last_update), GAME_OVER_LED_FLASH_DURATION)
     THEN LET a == [m1 EXCEPT !.led_last_update = m1.now,
                              !.flash_state = ~@]
              b == IF a.flash_state
                   THEN [led_all_on(a, 0) EXCEPT !.flash_count = (@ + 1) % U8]
                   ELSE led_clear_all(a)
          IN IF b.flash_count >= GAME_OVER_LED_FLASH_COUNT
             THEN [m |-> led_clear_all([b EXCEPT !.anim_state = ANIM_IDLE,
                                                 !.flash_count = 0]),
                   ret |-> TRUE]
             ELSE [m |-> b, ret |-> FALSE]
     ELSE [m |-> m1, ret |-> FALSE]

\* An engine that switches the lights off on every idle call.
animation_update_idle_clears(m) ==
  IF m.anim_state = ANIM_IDLE THEN [m |-> led_clear_all(m), ret |-> TRUE]
  ELSE CASE m.anim_state = ANIM_BULLSEYE -> anim_bullseye(m)
         [] m.anim_state = ANIM_CELEBRATION -> anim_celebration(m)
         [] m.anim_state = ANIM_GAME_OVER -> anim_game_over(m)
         [] OTHER -> [m |-> m, ret |-> TRUE]

\* animation_update(): the machine state after the call and the result.
animation_update(m) ==
  IF m.anim_state = ANIM_IDLE THEN [m |-> m, ret |-> TRUE]
  ELSE CASE m.anim_state = ANIM_BULLSEYE -> anim_bullseye(m)
         [] m.anim_state = ANIM_CELEBRATION -> anim_celebration(m)
         [] m.anim_state = ANIM_GAME_OVER -> anim_game_over(m)
         [] OTHER -> [m |-> m, ret |-> TRUE]

animation_start_bullseye(m) ==
  [Call(m, "animation_start", ANIM_BULLSEYE, 0)
     EXCEPT !.anim_state = ANIM_BULLSEYE, !.anim_step = 0,
            !.anim_last_update = m.now]

animation_start_celebration(m) ==
  [Call(m, "animation_start", ANIM_CELEBRATION, 0)
     EXCEPT !.anim_state = ANIM_CELEBRATION, !.anim_step = 0,
            !.led_sweep = 0, !.led_pos = 0,
            !.anim_last_update = m.now, !.led_last_update = m.now]

\* A start of the lose animation that leaves the flash phase as it finds it.
animation_start_game_over_keeps_phase(m) ==
  [Call(m, "animation_start", ANIM_GAME_OVER, 0)
     EXCEPT !.anim_state = ANIM_GAME_OVER, !.anim_step = 0,
            !.flash_count = 0,
            !.anim_last_update = m.now, !.led_last_update = m.now]

animation_start_game_over(m) ==
  [Call(m, "animation_start", ANIM_GAME_OVER, 0)
     EXCEPT !.anim_state = ANIM_GAME_OVER, !.anim_step = 0,
            !.flash_count = 0, !.flash_state = FALSE,
            !.anim_last_update = m.now, !.led_last_update = m.now]

animation_is_playing(m) == m.anim_state # ANIM_IDLE

\* -------------------------------------------------------------- game.cpp
\* A target zone that misses its first position.
calculate_score_off_by_one(position) ==
  IF position > TARGET_ZONE_START /\ position <= TARGET_ZONE_END
  THEN BULLSEYE_SCORE
  ELSE 0

\* The three-tier scoring of the README.
calculate_score_graduated(position) ==
  IF position >= TARGET_ZONE_START /\ position <= TARGET_ZONE_END
  THEN BULLSEYE_SCORE
  ELSE IF position = TARGET_ZONE_START - 1 \/ position = TARGET_ZONE_END + 1
  THEN ADJACENT_SCORE
  ELSE OUTER_SCORE

\* calculate_score(position)
calculate_score(position) ==
  IF position >= TARGET_ZONE_START /\ position <= TARGET_ZONE_END
  THEN BULLSEYE_SCORE
  ELSE 0

\* A cursor that turns round one position too late at the far end.
update_chase_position_late_bounce(m) ==
  IF U32Ge(Elapsed(m.now, m.last_chase_update), m.chase_speed)
  THEN LET a == led_clear_all([m EXCEPT !.last_chase_update = m.now])
           b == [a EXCEPT !.current_position = (@ + m.chase_direction) % U8]
           c == IF b.current_position = 0
                THEN [b EXCEPT !.chase_direction = 1]
                ELSE IF b.current_position = NUM_LEDS
                THEN [b EXCEPT !.chase_direction = -1]
                ELSE b
       IN buzzer_tick(led_set(Call(c, "move", "-", c.current_position),
                              c.current_position, TRUE))
  ELSE m

\* update_chase_position()
update_chase_position(m) ==
  IF U32Ge(Elapsed(m.now, m.last_chase_update), m.chase_speed)
  THEN LET a == led_clear_all([m EXCEPT !.last_chase_update = m.now])
           b == [a EXCEPT !.current_position = (@ + m.chase_direction) % U8]
           c == IF b.current_position = 0
                THEN [b EXCEPT !.chase_direction = 1]
                ELSE IF b.current_position = NUM_LEDS - 1
                THEN [b EXCEPT !.chase_direction = -1]
                ELSE b
       IN buzzer_tick(led_set(Call(c, "move", "-", c.current_position),
                              c.current_position, TRUE))
  ELSE m

attract_enter(m) ==
  display_show_attract([m EXCEPT !.chase_speed = INITIAL_CHASE_SPEED],
                       m.high_score)

\* An attract exit that clears the flag but forgets the score.
attract_exit_keeps_score(m) ==
  button_clear_state([m EXCEPT !.is_new_high_score = FALSE])

\* An attract exit that sends the light back to the first position.
attract_exit_homes_cursor(m) ==
  button_clear_state([m EXCEPT !.current_score = 0,
                               !.is_new_high_score = FALSE,
                               !.current_position = 0,
                               !.chase_direction = 1])

attract_exit(m) ==
  button_clear_state([m EXCEPT !.current_score = 0,
                               !.is_new_high_score = FALSE])

\* An entry into PLAYING that leaves the chase timer running.
playing_enter_no_resync(m) ==
  display_show_game(m, m.current_score, m.high_score)

playing_enter(m) ==
  [display_show_game(m, m.current_score, m.high_score)
     EXCEPT !.last_chase_update = m.now]

playing_exit(m) == m

result_enter(m) == [m EXCEPT !.state_entry_time = m.now]

result_exit(m) == m

celebration_enter(m) ==
  [animation_start_celebration(display_show_celebration(m, m.high_score))
     EXCEPT !.state_entry_time = m.now]

celebration_exit(m) == button_clear_state(m)

\* A game-over entry that also resets the score.
game_over_enter_clears_score(m) ==
  led_clear_all(animation_start_game_over([m EXCEPT !.current_score = 0]))

game_over_enter(m) == led_clear_all(animation_start_game_over(m))

game_over_exit(m) == button_clear_state([m EXCEPT !.current_score = 0])

\* state_handlers[h].exit
handler_exit(h, m) ==
  CASE h = STATE_ATTRACT -> attract_exit(m)
    [] h = STATE_PLAYING -> playing_exit(m)
    [] h = STATE_RESULT -> result_exit(m)
    [] h = STATE_CELEBRATION -> celebration_exit(m)
    [] h = STATE_GAME_OVER -> game_over_exit(m)

\* state_handlers[h].enter
handler_enter(h, m) ==
  CASE h = STATE_ATTRACT -> attract_enter(m)
    [] h = STATE_PLAYING -> playing_enter(m)
    [] h = STATE_RESULT -> result_enter(m)
    [] h = STATE_CELEBRATION -> celebration_enter(m)
    [] h = STATE_GAME_OVER -> game_over_enter(m)

\* A transition that assigns the state before it runs the exit action, so the
\* exit action of the incoming state runs.
game_transition_to_assign_first(m, new_state) ==
  LET m0 == Call(m, "game_transition_to", new_state, 0)
      b == Call([m0 EXCEPT !.current_state = new_state], "set", new_state, 0)
      a == handler_exit(b.current_state, Call(b, "exit", b.current_state, 0))
  IN handler_enter(a.current_state, Call(a, "enter", a.current_state, 0))

\* game_transition_to(new_state): exit, assignment, enter.
game_transition_to(m, new_state) ==
  LET m0 == Call(m, "game_transition_to", new_state, 0)
      a == handler_exit(m0.current_state,
                        Call(m0, "exit", m0.current_state, 0))
      b == [a EXCEPT !.current_state = new_state]
      c == Call(b, "set", new_state, 0)
  IN handler_enter(c.current_state, Call(c, "enter", c.current_state, 0))

attract_update(m) ==
  LET a == update_chase_position(m)
      b == button_just_pressed(a)
  IN IF b.ret THEN game_transition_to(b.m, STATE_PLAYING) ELSE b.m

\* playing_update(), the branch points > 0: a hit.
\* A hit that lowers the chase speed without the floor.
playing_hit_no_floor(m, points) ==
  LET c == [m EXCEPT !.current_score = (@ + points) % U16]
      d == IF c.current_score > c.high_score
           THEN [c EXCEPT !.is_new_high_score = TRUE,
                          !.high_score = c.current_score]
           ELSE c
      e == display_show_game(d, d.current_score, d.high_score)
      f == IF points = BULLSEYE_SCORE
           THEN animation_start_bullseye(e)
           ELSE buzzer_hit(e)
      g == [f EXCEPT !.chase_speed = (@ - SPEED_DECREASE) % U16]
  IN game_transition_to(g, STATE_RESULT)

\* A hit that treats a tie with the high score as a new high score.
playing_hit_tie_counts(m, points) ==
  LET c == [m EXCEPT !.current_score = (@ + points) % U16]
      d == IF c.current_score >= c.high_score
           THEN [c EXCEPT !.is_new_high_score = TRUE,
                          !.high_score = c.current_score]
           ELSE c
      e == display_show_game(d, d.current_score, d.high_score)
      f == IF points = BULLSEYE_SCORE
           THEN animation_start_bullseye(e)
           ELSE buzzer_hit(e)
      g == IF f.chase_speed > MIN_CHASE_SPEED
           THEN LET sp == (f.chase_speed - SPEED_DECREASE) % U16
                IN [f EXCEPT !.chase_speed =
                      IF sp < MIN_CHASE_SPEED THEN MIN_CHASE_SPEED ELSE sp]
           ELSE f
  IN game_transition_to(g, STATE_RESULT)

\* A hit that raises the flag but leaves the high score as it is.
playing_hit_flag_only(m, points) ==
  LET c == [m EXCEPT !.current_score = (@ + points) % U16]
      d == IF c.current_score > c.high_score
           THEN [c EXCEPT !.is_new_high_score = TRUE]
           ELSE c
      e == display_show_game(d, d.current_score, d.high_score)
      f == IF points = BULLSEYE_SCORE
           THEN animation_start_bullseye(e)
           ELSE buzzer_hit(e)
      g == IF f.chase_speed > MIN_CHASE_SPEED
           THEN LET sp == (f.chase_speed - SPEED_DECREASE) % U16
                IN [f EXCEPT !.chase_speed =
                      IF sp < MIN_CHASE_SPEED THEN MIN_CHASE_SPEED ELSE sp]
           ELSE f
  IN game_transition_to(g, STATE_RESULT)

playing_hit(m, points) ==
  LET c == [m EXCEPT !.current_score = (@ + points) % U16]
      d == IF c.current_score > c.high_score
           THEN [c EXCEPT !.is_new_high_score = TRUE,
                          !.high_score = c.current_score]
           ELSE c
      e == display_show_game(d, d.current_score, d.high_score)
      f == IF points = BULLSEYE_SCORE
           THEN animation_start_bullseye(e)
           ELSE buzzer_hit(e)
      g == IF f.chase_speed > MIN_CHASE_SPEED
           THEN LET sp == (f.chase_speed - SPEED_DECREASE) % U16
                IN [f EXCEPT !.chase_speed =
                      IF sp < MIN_CHASE_SPEED THEN MIN_CHASE_SPEED ELSE sp]
           ELSE f
  IN game_transition_to(g, STATE_RESULT)

\* A miss that saves the high score only after the transition.
playing_miss_saves_late(m) ==
  IF m.is_new_high_score
  THEN eeprom_write_high_score(game_transition_to(m, STATE_CELEBRATION),
                               m.high_score)
  ELSE game_transition_to(m, STATE_GAME_OVER)

\* A miss that celebrates without saving.
playing_miss_no_save(m) ==
  IF m.is_new_high_score
  THEN game_transition_to(m, STATE_CELEBRATION)
  ELSE game_transition_to(m, STATE_GAME_OVER)

\* playing_update(), the branch points = 0: a miss ends the game.
playing_miss(m) ==
  IF m.is_new_high_score
  THEN game_transition_to(eeprom_write_high_score(m, m.high_score),
                          STATE_CELEBRATION)
  ELSE game_transition_to(m, STATE_GAME_OVER)

playing_update(m) ==
  LET a == update_chase_position(m)
      b == button_just_pressed(a)
      points == calculate_score(b.m.current_position)
  IN IF ~b.ret THEN b.m
     ELSE IF points > 0 THEN playing_hit(b.m, points)
     ELSE playing_miss(b.m)

\* A result pause that needs more than the dwell time.
result_update_strict(m) ==
  IF ~U32Ge(Elapsed(m.now, m.state_entry_time), RESULT_DWELL_MS + 1)
  THEN m
  ELSE [game_transition_to(m, STATE_PLAYING) EXCEPT !.last_chase_update = m.now]

\* A result pause that ends the game instead of resuming it.
result_update_to_attract(m) ==
  IF U32Ge(Elapsed(m.now, m.state_entry_time), RESULT_DWELL_MS)
  THEN [game_transition_to(m, STATE_ATTRACT) EXCEPT !.last_chase_update = m.now]
  ELSE m

result_update(m) ==
  IF U32Ge(Elapsed(m.now, m.state_entry_time), RESULT_DWELL_MS)
  THEN [game_transition_to(m, STATE_PLAYING) EXCEPT !.last_chase_update = m.now]
  ELSE m

\* A celebration that also waits for the win animation.
celebration_update_waits_for_animation(m) ==
  IF U32Ge(Elapsed(m.now, m.state_entry_time), CELEBRATION_DWELL_MS)
     /\ ~animation_is_playing(m)
  THEN game_transition_to(m, STATE_ATTRACT)
  ELSE m

celebration_update(m) ==
  IF U32Ge(Elapsed(m.now, m.state_entry_time), CELEBRATION_DWELL_MS)
  THEN game_transition_to(m, STATE_ATTRACT)
  ELSE m

\* A game-over state that waits for the tones only: they end with the engine
\* still active, so the state never sees it idle.
game_over_update_waits_for_silence(m) ==
  IF ~animation_is_playing(m) /\ m.anim_step >= 3 /\ m.flash_count >= 1
  THEN game_transition_to(m, STATE_ATTRACT)
  ELSE m

\* A game-over state that polls the button to skip the animation.
game_over_update_skippable(m) ==
  LET b == button_just_pressed(m)
  IN IF ~animation_is_playing(b.m) \/ b.ret
     THEN game_transition_to(b.m, STATE_ATTRACT)
     ELSE b.m

game_over_update(m) ==
  IF ~animation_is_playing(m)
  THEN game_transition_to(m, STATE_ATTRACT)
  ELSE m

\* state_handlers[h].update
handler_update(h, m) ==
  CASE h = STATE_ATTRACT -> attract_update(m)
    [] h = STATE_PLAYING -> playing_update(m)
    [] h = STATE_RESULT -> result_update(m)
    [] h = STATE_CELEBRATION -> celebration_update(m)
    [] h = STATE_GAME_OVER -> game_over_update(m)

\* A tick that runs the state's update before the animation engine.
game_update_state_first(m) ==
  LET h == handler_update(m.current_state,
                          Call(m, "update", m.current_state, 0))
      a == animation_update(h)
  IN Call(a.m, "animation_update", a.m.anim_state, IF a.ret THEN 1 ELSE 0)

\* A tick that also runs the update action of a state it has just entered.
game_update_chained(m) ==
  LET a == animation_update(m)
      b == Call(a.m, "animation_update", a.m.anim_state,
                IF a.ret THEN 1 ELSE 0)
      c == handler_update(b.current_state, Call(b, "update", b.current_state, 0))
  IN IF c.current_state # b.current_state
     THEN handler_update(c.current_state, Call(c, "update", c.current_state, 0))
     ELSE c

\* game_update(): the animation engine first, then the state's update.
game_update(m) ==
  LET a == animation_update(m)
      b == Call(a.m, "animation_update", a.m.anim_state,
                IF a.ret THEN 1 ELSE 0)
  IN handler_update(b.current_state, Call(b, "update", b.current_state, 0))

\* game_init()
game_init(m) ==
  LET a == [m EXCEPT !.current_position = 0,
                     !.chase_direction = 1,
                     !.chase_speed = INITIAL_CHASE_SPEED,
                     !.last_chase_update = m.now,
                     !.high_score = eeprom_read_high_score(m),
                     !.current_score = 0,
                     !.is_new_high_score = FALSE,
                     !.current_state = STATE_ATTRACT]
  IN game_transition_to(a, STATE_ATTRACT)

\* ------------------------------------------------------------- main.cpp
\* The record eeprom_write_high_score(v) leaves.
RecordOf(v) ==
  <<v % U8, (v \div U8) % U8, EEPROM_MAGIC_BYTE,
    Xor8(Xor8(v % U8, (v \div U8) % U8), EEPROM_MAGIC_BYTE)>>

\* What the four EEPROM cells may hold at power-on: erased cells, or a
\* record saved by an earlier run.
PowerOnRecords == {<<255, 255, 255, 255>>, RecordOf(BULLSEYE_SCORE)}

Init ==
  /\ pc = "boot"
  /\ now = U32Of(0)
  /\ pin \in {HIGH, LOW}
  /\ eeprom \in PowerOnRecords
  /\ current_state = STATE_ATTRACT
  /\ current_position = 0
  /\ chase_direction = 1
  /\ chase_speed = INITIAL_CHASE_SPEED
  /\ last_chase_update = U32Of(0)
  /\ current_score = 0
  /\ high_score = 0
  /\ is_new_high_score = FALSE
  /\ state_entry_time = U32Of(0)
  /\ last_button_state = FALSE
  /\ last_debounce_time = U32Of(0)
  /\ anim_state = ANIM_IDLE
  /\ anim_step = 0
  /\ anim_last_update = U32Of(0)
  /\ led_sweep = 0
  /\ led_pos = 0
  /\ flash_count = 0
  /\ flash_state = FALSE
  /\ led_last_update = U32Of(0)
  /\ log = <<>>

\* The machine as the next handler finds it: the clock has advanced by gap
\* clock steps, the pin reads level, the call log is empty.
Arrive(gap, level) ==
  [Machine EXCEPT !.now = U32Add(now, gap * TickMs), !.pin = level,
                  !.log = <<>>]

\* The handler ran from machine state m and returned.
Return(m, next_pc) ==
  /\ pc' = next_pc
  /\ now' = m.now
  /\ pin' = m.pin
  /\ Store(m)

\* setup(): hardware_init(); game_init();
Setup(gap, level) ==
  /\ pc = "boot"
  /\ Ms(now) + gap * TickMs <= Horizon * TickMs
  /\ \E m \in {game_init(hardware_init(Arrive(gap, level)))} :
       Return(m, "run")

\* loop(): game_update(); wdt_reset();
Loop(gap, level) ==
  /\ pc = "run"
  /\ Ms(now) + gap * TickMs <= Horizon * TickMs
  /\ \E m \in {game_update(Arrive(gap, level))} : Return(m, "run")

Next ==
  \/ \E gap \in Gaps, level \in {HIGH, LOW} : Setup(gap, level)
  \/ \E gap \in Gaps, level \in {HIGH, LOW} : Loop(gap, level)

Spec == Init /\ [][Next]_vars

\* The frame driver under steady scheduling: loop() is called again within
\* one clock step (gaps 0 and 1 only), it is called forever, and millis()
\* keeps advancing until the explored horizon is reached.
SteadyGaps == {g \in Gaps : g <= 1}

SteadyNext ==
  \/ \E gap \in SteadyGaps, level \in {HIGH, LOW} : Setup(gap, level)
  \/ \E gap \in SteadyGaps, level \in {HIGH, LOW} : Loop(gap, level)

\* A loop() iteration one clock step after the previous one.
Advance ==
  /\ pc = "run"
  /\ Ms(now) + TickMs <= Horizon * TickMs
  /\ now' = U32Add(now, TickMs)

LiveSpec == Init /\ [][SteadyNext]_vars /\ WF_now(Advance)

\* ------------------------------------------------- a game in progress
\* The hit counts after which a game in progress is picked up: around the
\* hit that brings the chase speed to MIN_CHASE_SPEED, and around the hit
\* that carries current_score (uint16_t) past 65535.
SessionHits == {1, 14, 15, 6552, 6553}

\* millis() when the game is picked up, as a uint32_t.
SessionEpoch == <<48, 0>>

\* chase_speed after k hits of one game (playing_update, hit branch).
SpeedAfterHits(k) ==
  IF k * SPEED_DECREASE < INITIAL_CHASE_SPEED - MIN_CHASE_SPEED
  THEN INITIAL_CHASE_SPEED - k * SPEED_DECREASE
  ELSE MIN_CHASE_SPEED

\* The machine in PLAYING after k hits of one game (k * BULLSEYE_SCORE below
\* 2^16), as the loop() at clock t leaves it when loop() runs every 100 ms:
\* the last hit was accepted 400 ms before t, the loop() RESULT_DWELL_MS
\* after the hit ended the animation and the RESULT dwell, and playing_enter
\* then restarted the chase interval; the loop() at t has moved the cursor
\* only if chase_speed ms have passed since. The button has been released,
\* the cursor is at p moving in direction d at t, and record e is what the
\* EEPROM held at power-on.
InGameAt(t, k, e, p, d) ==
  LET score == k * BULLSEYE_SCORE
      stored == eeprom_read_high_score([eeprom |-> e])
      hit == U32Sub(t, U32Of(400))
      resumed == U32Add(hit, RESULT_DWELL_MS)
  IN [now |-> t, pin |-> HIGH, eeprom |-> e,
      current_state |-> STATE_PLAYING, current_position |-> p,
      chase_direction |-> d, chase_speed |-> SpeedAfterHits(k),
      last_chase_update |->
        IF U32Ge(Elapsed(t, resumed), SpeedAfterHits(k)) THEN t ELSE resumed,
      current_score |-> score,
      high_score |-> IF score > stored THEN score ELSE stored,
      is_new_high_score |-> score > stored,
      state_entry_time |-> hit,
      last_button_state |-> FALSE, last_debounce_time |-> hit,
      anim_state |-> ANIM_IDLE, anim_step |-> 3,
      anim_last_update |-> resumed, led_sweep |-> 0, led_pos |-> 0,
      flash_count |-> 0, flash_state |-> FALSE,
      led_last_update |-> U32Of(0), log |-> <<>>]

InGame(k, e, p, d) == InGameAt(SessionEpoch, k, e, p, d)

\* The variables hold machine state m.
Holds(m) ==
  /\ now = m.now
  /\ pin = m.pin
  /\ eeprom = m.eeprom
  /\ current_state = m.current_state
  /\ current_position = m.current_position
  /\ chase_direction = m.chase_direction
  /\ chase_speed = m.chase_speed
  /\ last_chase_update = m.last_chase_update
  /\ current_score = m.current_score
  /\ high_score = m.high_score
  /\ is_new_high_score = m.is_new_high_score
  /\ state_entry_time = m.state_entry_time
  /\ last_button_state = m.last_button_state
  /\ last_debounce_time = m.last_debounce_time
  /\ anim_state = m.anim_state
  /\ anim_step = m.anim_step
  /\ anim_last_update = m.anim_last_update
  /\ led_sweep = m.led_sweep
  /\ led_pos = m.led_pos
  /\ flash_count = m.flash_count
  /\ flash_state = m.flash_state
  /\ led_last_update = m.led_last_update
  /\ log = m.log

\* The cursors at which a hit is taken: a position of the target zone, in
\* either direction of travel (calculate_score).
HitCursors == [p : TARGET_ZONE_START..TARGET_ZONE_END, d : {-1, 1}]

\* The cursor 400 ms after the k-th hit was taken at cursor c: playing_enter
\* keeps the cursor, and the loop() 100 ms after it moves the cursor one
\* position (update_chase_position; no end of the strip is within one move
\* of the target zone) when chase_speed is 100 ms or less.
CursorAfterHit(k, c) ==
  IF U32Ge(U32Of(400 - RESULT_DWELL_MS), SpeedAfterHits(k))
  THEN [c EXCEPT !.p = c.p + c.d]
  ELSE c

\* The state a loop() iteration leaves in a game in progress.
SessionInit ==
  /\ pc = "run"
  /\ \E k \in SessionHits, e \in PowerOnRecords, h \in HitCursors :
       \E c \in {CursorAfterHit(k, h)} :
         Holds(game_update(InGame(k, e, c.p, c.d)))

\* loop() in a game that was picked up at SessionEpoch.
Play(gap, level) ==
  /\ pc = "run"
  /\ Ms(Elapsed(now, SessionEpoch)) + gap * TickMs <= Horizon * TickMs
  /\ \E m \in {game_update(Arrive(gap, level))} : Return(m, "run")

SessionNext == \E gap \in SteadyGaps, level \in {HIGH, LOW} : Play(gap, level)

SessionSpec == SessionInit /\ [][SessionNext]_vars

\* ------------------------------------------- the millisecond counter wraps
\* millis() when the game is picked up: 1050 ms before the counter wraps
\* from 2^32 - 1 to 0.
WrapEpoch == <<U16 - 1, U16 - 1050>>

\* The clock value t as a signed offset from the wrap, in ms, for t within
\* 2^31 ms of it.
Rel(t) == IF t[1] >= U16 \div 2 THEN (t[1] - U16) * U16 + t[2] ELSE Ms(t)

WrapInit ==
  /\ pc = "run"
  /\ \E k \in SessionHits, e \in PowerOnRecords, h \in HitCursors :
       \E c \in {CursorAfterHit(k, h)} :
         Holds(game_update(InGameAt(WrapEpoch, k, e, c.p, c.d)))

\* loop() in a game that was picked up at WrapEpoch.
PlayOn(gap, level) ==
  /\ pc = "run"
  /\ Rel(now) - Rel(WrapEpoch) + gap * TickMs <= Horizon * TickMs
  /\ \E m \in {game_update(Arrive(gap, level))} : Return(m, "run")

WrapNext == \E gap \in SteadyGaps, level \in {HIGH, LOW} : PlayOn(gap, level)

WrapSpec == WrapInit /\ [][WrapNext]_vars

\* ------------------------------------------------ the high-score record
\* The static initialisers of game.cpp and hardware.cpp.
Static ==
  [now |-> U32Of(0), pin |-> HIGH, eeprom |-> <<255, 255, 255, 255>>,
   current_state |-> STATE_ATTRACT, current_position |-> 0,
   chase_direction |-> 1, chase_speed |-> INITIAL_CHASE_SPEED,
   last_chase_update |-> U32Of(0), current_score |-> 0, high_score |-> 0,
   is_new_high_score |-> FALSE, state_entry_time |-> U32Of(0),
   last_button_state |-> FALSE, last_debounce_time |-> U32Of(0),
   anim_state |-> ANIM_IDLE, anim_step |-> 0, anim_last_update |-> U32Of(0),
   led_sweep |-> 0, led_pos |-> 0, flash_count |-> 0, flash_state |-> FALSE,
   led_last_update |-> U32Of(0), log |-> <<>>]

\* Byte values the record's cells are sampled from: closed under XOR with
\* each other and with EEPROM_MAGIC_BYTE.
ByteSamples == {0, 1, 90, 91, 164, 165, 254, 255}

\* What the four cells may hold before the firmware touches them: any bytes
\* (sampled), among them erased cells, valid records and damaged records.
StoredRecords ==
  PowerOnRecords \cup
    {<<a, b, c, d>> : a \in ByteSamples, b \in ByteSamples,
                      c \in ByteSamples, d \in ByteSamples}

\* The scores whose two bytes are sampled.
SampleScores == {lo + hi * U8 : lo \in ByteSamples, hi \in ByteSamples}

\* The scores saved over record r: every uint16_t over a power-on record,
\* the sampled ones over any other contents.
SaveScores(r) == IF r \in PowerOnRecords THEN 0..(U16 - 1) ELSE SampleScores

StoreInit ==
  /\ pc = "stored"
  /\ \E r \in StoredRecords : Holds([Static EXCEPT !.eeprom = r])

\* eeprom_write_high_score(v) over the record as found.
Save(v) ==
  /\ pc = "stored"
  /\ \E m \in {eeprom_write_high_score([Machine EXCEPT !.log = <<>>], v)} :
       Return(m, "saved")

\* A second eeprom_write_high_score directly after the first, with the
\* first one's score plus d (modulo 2^16).
SaveAgain(d) ==
  /\ pc = "saved"
  /\ \E m \in {eeprom_write_high_score([Machine EXCEPT !.log = <<>>],
                                       (log[1].n + d) % U16)} :
       Return(m, "resaved")

\* high_score = eeprom_read_high_score(), as game_init() does.
Load ==
  /\ pc \in {"stored", "saved", "resaved", "flipped"}
  /\ \E m \in {[Machine EXCEPT !.high_score = eeprom_read_high_score(Machine)]} :
       Return(m, "loaded")

\* Bit k (0..7) of byte b inverted.
FlipBit(b, k) ==
  IF (b \div (2 ^ k)) % 2 = 1 THEN b - 2 ^ k ELSE b + 2 ^ k

\* The saved scores whose record is then damaged: every value of one byte
\* against the sampled values of the other.
FlipScores ==
  {v \in 0..(U16 - 1) : v % U8 \in ByteSamples \/ v \div U8 \in ByteSamples}

\* One bit of the saved record is inverted in the EEPROM: bit k of cell c.
Flip(c, k) ==
  /\ pc = "saved"
  /\ log[1].n \in FlipScores
  /\ \E m \in {[Machine EXCEPT !.eeprom[c] = FlipBit(@, k)]} :
       Return(m, "flipped")

StoreNext ==
  \/ \E v \in SaveScores(eeprom) : Save(v)
  \/ \E d \in {0, 1} : SaveAgain(d)
  \/ Load
  \/ \E c \in 1..4, k \in 0..7 : Flip(c, k)

StoreSpec == StoreInit /\ [][StoreNext]_vars

\* ------------------------------------------------------ the edge detector
\* The clock step between two polls of the button, in ms, and the number of
\* clock steps explored.
PollMs == 10
PollHorizon == 16

\* The machine at 1000 ms: hardware_init() has run and the released button
\* has been polled since.
Idle ==
  button_just_pressed(
    [hardware_init([Static EXCEPT !.pin = HIGH]) EXCEPT !.now = U32Of(1000)]).m

\* pc is "free" when the raw level is arbitrary, and otherwise the phase of
\* one physical press: contacts open, bouncing on the make (at most two
\* polls), closed, bouncing on the release (at most two polls), released.
ButtonInit ==
  /\ pc \in {"free", "open"}
  /\ Holds(Idle)

\* The machine as the next call finds it: gap clock steps later, the pin
\* reading level.
Sampled(gap, level) ==
  [Machine EXCEPT !.now = U32Add(now, gap * PollMs), !.pin = level]

\* The log of the edge detector: one entry per call that returned true, with
\* the clock (ms) of the call.
Accepted(r) ==
  [r.m EXCEPT !.log = IF r.ret
                      THEN Append(log, Ev("accepted", "-", "-", Ms(r.m.now)))
                      ELSE log]

\* button_just_pressed() with an arbitrary raw level.
Poll(gap, level) ==
  /\ pc = "free"
  /\ Ms(now) + gap * PollMs <= Ms(Idle.now) + PollHorizon * PollMs
  /\ \E m \in {Accepted(button_just_pressed(Sampled(gap, level)))} :
       Return(m, "free")

\* button_clear_state() with an arbitrary raw level; the accepted presses
\* before it no longer count.
Clear(gap, level) ==
  /\ pc = "free"
  /\ Ms(now) + gap * PollMs <= Ms(Idle.now) + PollHorizon * PollMs
  /\ \E m \in {[button_clear_state(Sampled(gap, level)) EXCEPT !.log = <<>>]} :
       Return(m, "free")

\* The phases a poll one clock step later may find the contacts in, after
\* phase p, with the raw levels the pin may read in each.
ContactSteps ==
  {<<"open", "open", HIGH>>, <<"open", "closed", LOW>>,
   <<"open", "make1", HIGH>>, <<"open", "make1", LOW>>,
   <<"make1", "make2", HIGH>>, <<"make1", "make2", LOW>>,
   <<"make1", "closed", LOW>>, <<"make2", "closed", LOW>>,
   <<"closed", "closed", LOW>>, <<"closed", "released", HIGH>>,
   <<"closed", "break1", HIGH>>, <<"closed", "break1", LOW>>,
   <<"break1", "break2", HIGH>>, <<"break1", "break2", LOW>>,
   <<"break1", "released", HIGH>>, <<"break2", "released", HIGH>>,
   <<"released", "released", HIGH>>}

\* button_just_pressed() one clock step later, during one physical press.
Contact(phase, level) ==
  /\ <<pc, phase, level>> \in ContactSteps
  /\ Ms(now) + PollMs <= Ms(Idle.now) + PollHorizon * PollMs
  /\ \E m \in {Accepted(button_just_pressed(Sampled(1, level)))} :
       Return(m, phase)

ButtonNext ==
  \/ \E gap \in {0, 1, 2}, level \in {HIGH, LOW} : Poll(gap, level)
  \/ \E gap \in {0, 1, 2}, level \in {HIGH, LOW} : Clear(gap, level)
  \/ \E phase \in {"open", "make1", "make2", "closed", "break1", "break2",
                   "released"}, level \in {HIGH, LOW} : Contact(phase, level)

ButtonSpec == ButtonInit /\ [][ButtonNext]_vars

\* ------------------------------------------------ a save cut short
\* A valid record holding u, loaded into high_score as game_init() does.
TornInit ==
  /\ pc = "held"
  /\ \E u \in SampleScores :
       Holds([Static EXCEPT !.eeprom = RecordOf(u), !.high_score = u])

\* eeprom_write_high_score(score) cut by a power loss after the first k of
\* its four EEPROM.update() calls, which go through the cells in address
\* order: the first k cells are as the complete call leaves them, the others
\* as they were.
Interrupted(m, score, k) ==
  LET full == eeprom_write_high_score([m EXCEPT !.log = <<>>], score)
  IN [m EXCEPT !.eeprom = [c \in 1..4 |-> IF c <= k THEN full.eeprom[c]
                                          ELSE m.eeprom[c]],
               !.log = <<full.log[1]>>]

Tear(v, k) ==
  /\ pc = "held"
  /\ \E m \in {Interrupted(Machine, v, k)} : Return(m, "torn")

\* The next power-on: game_init() loads the high score.
Reload ==
  /\ pc = "torn"
  /\ \E m \in {[Machine EXCEPT !.high_score = eeprom_read_high_score(Machine)]} :
       Return(m, "reloaded")

TornNext ==
  \/ \E v \in SampleScores, k \in 0..4 : Tear(v, k)
  \/ Reload

TornSpec == TornInit /\ [][TornNext]_vars

\* ------------------------------------------- the edge detector at power-on
\* Power-on: the static initialisers, millis() at 0, the button held or not.
BootInit ==
  /\ pc = "boot"
  /\ \E level \in {HIGH, LOW} : Holds([Static EXCEPT !.pin = level])

\* hardware_init(), reading the pin at level.
PowerOn(gap, level) ==
  /\ pc = "boot"
  /\ \E m \in {hardware_init(Sampled(gap, level))} : Return(m, "init")

\* button_just_pressed() after hardware_init(): the first call when pc is
\* "init", a later call when it is "polled".
Sample(gap, level) ==
  /\ pc \in {"init", "polled"}
  /\ Ms(now) + gap * PollMs <= PollHorizon * PollMs
  /\ \E m \in {Accepted(button_just_pressed(Sampled(gap, level)))} :
       Return(m, "polled")

BootNext ==
  \/ \E gap \in {0, 1, 5}, level \in {HIGH, LOW} : PowerOn(gap, level)
  \/ \E gap \in {0, 1, 5}, level \in {HIGH, LOW} : Sample(gap, level)

BootSpec == BootInit /\ [][BootNext]_vars

\* -------------------------------------------------- the animation engine
\* The clock step between two calls of the engine, in ms, the number of
\* clock steps explored, and the spacings of the calls in clock steps.
AnimMs == 10
AnimHorizon == 200
AnimGaps == {0, 1, 4, 15}

AnimInit ==
  /\ pc = "anim"
  /\ Holds(Static)

\* The machine as the next call finds it: gap clock steps later, the call
\* log empty.
Later(gap) ==
  [Machine EXCEPT !.now = U32Add(now, gap * AnimMs), !.log = <<>>]

\* animation_start_*() as the first call to the engine, one animation per
\* run, at clock 0: the start touches the engine's variables only, and
\* state_entry_time stays at its static initialiser 0, the clock of the
\* start.
Begin(kind) ==
  /\ pc = "anim"
  /\ now = U32Of(0)
  /\ anim_state = ANIM_IDLE
  /\ \E m \in {CASE kind = ANIM_BULLSEYE -> animation_start_bullseye(Later(0))
                 [] kind = ANIM_CELEBRATION ->
                      animation_start_celebration(Later(0))
                 [] kind = ANIM_GAME_OVER ->
                      animation_start_game_over(Later(0))} :
       Return(m, "anim")

\* animation_update(), its result kept in the call log as game_update()
\* keeps it.
Tick(gap) ==
  /\ pc = "anim"
  /\ Ms(now) + gap * AnimMs <= AnimHorizon * AnimMs
  /\ \E r \in {animation_update(Later(gap))} :
       Return(Call(r.m, "animation_update", r.m.anim_state,
                   IF r.ret THEN 1 ELSE 0), "anim")

AnimNext ==
  \/ \E kind \in {ANIM_BULLSEYE, ANIM_CELEBRATION, ANIM_GAME_OVER} :
       Begin(kind)
  \/ \E gap \in AnimGaps : Tick(gap)

AnimSpec == AnimInit /\ [][AnimNext]_vars

\* The engine called at least every few ms, forever: the gaps of AnimGaps
\* without the longest one (a stalled loop), and the clock weakly fair to
\* advance by one step until the explored horizon is reached.
SteadyAnimGaps == {g \in AnimGaps : \E h \in AnimGaps : h > g}

SteadyAnimNext ==
  \/ \E kind \in {ANIM_BULLSEYE, ANIM_CELEBRATION, ANIM_GAME_OVER} : Begin(kind)
  \/ \E gap \in SteadyAnimGaps : Tick(gap)

AnimAdvance ==
  /\ pc = "anim"
  /\ Ms(now) + AnimMs <= AnimHorizon * AnimMs
  /\ now' = U32Add(now, AnimMs)

AnimLiveSpec == AnimInit /\ [][SteadyAnimNext]_vars /\ WF_now(AnimAdvance)

\* ----------------------------------- an animation started over another one
\* animation_start_X() in any engine state, once in a run and within the
\* first RestartBy clock steps: pc is "over" from then on.
RestartBy == 60

Restart(kind) ==
  /\ pc = "anim"
  /\ Ms(now) <= RestartBy * AnimMs
  /\ \E m \in {CASE kind = ANIM_BULLSEYE -> animation_start_bullseye(Later(0))
                 [] kind = ANIM_CELEBRATION -> animation_start_celebration(Later(0))
                 [] kind = ANIM_GAME_OVER -> animation_start_game_over(Later(0))} :
       Return(m, "over")

\* animation_update() after that start.
TickOn(gap) ==
  /\ pc = "over"
  /\ Ms(now) + gap * AnimMs <= AnimHorizon * AnimMs
  /\ \E r \in {animation_update(Later(gap))} :
       Return(Call(r.m, "animation_update", r.m.anim_state,
                   IF r.ret THEN 1 ELSE 0), "over")

RestartGaps == {4, 15}

RestartNext ==
  \/ \E kind \in {ANIM_BULLSEYE, ANIM_CELEBRATION, ANIM_GAME_OVER} : Begin(kind)
  \/ \E gap \in RestartGaps : Tick(gap)
  \/ \E kind \in {ANIM_BULLSEYE, ANIM_CELEBRATION, ANIM_GAME_OVER} : Restart(kind)
  \/ \E gap \in RestartGaps : TickOn(gap)

RestartSpec == AnimInit /\ [][RestartNext]_vars

\* ================================================================ claims
\* The positions in call log L of the calls named e.
Calls(L, e) == {i \in DOMAIN L : L[i].ev = e}

\* The next handler's button poll is an accepted press: the pin reads pressed,
\* the last observed level was not pressed, and the debounce time has passed.
PressAccepted ==
  /\ pin' = LOW
  /\ ~last_button_state
  /\ Ms(now') - Ms(last_debounce_time) >= DEBOUNCE_MS

\* The cursor position the next handler evaluates lies in the target zone.
InZone == current_position' \in TARGET_ZONE_START..TARGET_ZONE_END

\* The last handler took the transition from state a to state b.
Took(a, b) ==
  \E i \in Calls(log, "game_transition_to") : log[i].cur = a /\ log[i].st = b

\* C1: every call of game_transition_to(new_state) runs the exit action of
\* the outgoing state once while the state value is still the old state, then
\* assigns the state value, then runs the enter action of the incoming state
\* once while the state value is the new state; no exit action, assignment or
\* enter action happens outside such a call, the first call of a handler
\* starts from the state the handler found, and the last one decides the
\* state the handler leaves.
C1_Step ==
  LET L == log'
      T == Calls(L, "game_transition_to")
  IN /\ \A i \in T :
          /\ i + 3 <= Len(L)
          /\ L[i + 1] = Ev("exit", L[i].cur, L[i].cur, 0)
          /\ L[i + 2] = Ev("set", L[i].st, L[i].st, 0)
          /\ L[i + 3] = Ev("enter", L[i].st, L[i].st, 0)
     /\ \A i \in Calls(L, "exit") : i - 1 \in T
     /\ \A i \in Calls(L, "set") : i - 2 \in T
     /\ \A i \in Calls(L, "enter") : i - 3 \in T
     /\ \A i \in T :
          /\ (\A j \in T : j >= i) => L[i].cur = current_state
          /\ (\A j \in T : j <= i) => L[i].st = current_state'
     /\ (T = {} /\ pc = "run") => current_state' = current_state
C1_TransitionOrder == [][C1_Step]_vars
C1_Witness == Took(STATE_PLAYING, STATE_CELEBRATION)

\* C2: setup() leaves the controller in ATTRACT, and a loop() iteration
\* changes the state only along ATTRACT->PLAYING (accepted press),
\* PLAYING->RESULT (accepted press in the zone), PLAYING->CELEBRATION
\* (accepted press outside the zone, new-high-score flag set),
\* PLAYING->GAME_OVER (accepted press outside the zone, flag clear),
\* RESULT->PLAYING (300 ms since entry), CELEBRATION->ATTRACT (2000 ms since
\* entry) and GAME_OVER->ATTRACT (animation engine idle).
C2_Step ==
  /\ pc = "boot" => current_state' = STATE_ATTRACT
  /\ (pc = "run" /\ current_state' # current_state) =>
       \/ /\ current_state = STATE_ATTRACT /\ current_state' = STATE_PLAYING
          /\ PressAccepted
       \/ /\ current_state = STATE_PLAYING /\ current_state' = STATE_RESULT
          /\ PressAccepted /\ InZone
       \/ /\ current_state = STATE_PLAYING
          /\ current_state' = STATE_CELEBRATION
          /\ PressAccepted /\ ~InZone /\ is_new_high_score
       \/ /\ current_state = STATE_PLAYING /\ current_state' = STATE_GAME_OVER
          /\ PressAccepted /\ ~InZone /\ ~is_new_high_score
       \/ /\ current_state = STATE_RESULT /\ current_state' = STATE_PLAYING
          /\ Ms(now') - Ms(state_entry_time) >= RESULT_DWELL_MS
       \/ /\ current_state = STATE_CELEBRATION
          /\ current_state' = STATE_ATTRACT
          /\ Ms(now') - Ms(state_entry_time) >= CELEBRATION_DWELL_MS
       \/ /\ current_state = STATE_GAME_OVER /\ current_state' = STATE_ATTRACT
          /\ anim_state' = ANIM_IDLE
C2_OnlyListedTransitions == [][C2_Step]_vars
C2_Witness ==
  /\ Took(STATE_CELEBRATION, STATE_ATTRACT)
  /\ current_state = STATE_ATTRACT

\* The chase speed after a hit at speed sp.
SpeedAfterHit(sp) ==
  IF sp - SPEED_DECREASE > MIN_CHASE_SPEED THEN sp - SPEED_DECREASE
  ELSE MIN_CHASE_SPEED

\* C3: a loop() iteration in PLAYING that accepts a press with the cursor (as
\* moved by that iteration) in [TARGET_ZONE_START, TARGET_ZONE_END] adds
\* exactly BULLSEYE_SCORE to the score, sets the chase speed to
\* max(MIN_CHASE_SPEED, speed - SPEED_DECREASE), starts the hit animation and
\* enters RESULT; an accepted press at any other position leaves the score as
\* it is and enters CELEBRATION or GAME_OVER.
C3_Step ==
  (pc = "run" /\ current_state = STATE_PLAYING /\ PressAccepted) =>
    IF InZone
    THEN /\ current_score' = (current_score + BULLSEYE_SCORE) % U16
         /\ chase_speed' = SpeedAfterHit(chase_speed)
         /\ Calls(log', "animation_start") # {}
         /\ \A i \in Calls(log', "animation_start") : log'[i].st = ANIM_BULLSEYE
         /\ anim_state' = ANIM_BULLSEYE
         /\ current_state' = STATE_RESULT
    ELSE /\ current_score' = current_score
         /\ chase_speed' = chase_speed
         /\ current_state' \in {STATE_CELEBRATION, STATE_GAME_OVER}
C3_HitScoresMissEnds == [][C3_Step]_vars
C3_Witness ==
  /\ Took(STATE_PLAYING, STATE_RESULT)
  /\ current_score = 2 * BULLSEYE_SCORE
  /\ chase_speed = INITIAL_CHASE_SPEED - 2 * SPEED_DECREASE
  /\ anim_state = ANIM_BULLSEYE

\* The next handler leaves the persistent store alone: no call of
\* eeprom_write_high_score, no cell written, the four bytes unchanged.
StoreUntouched ==
  /\ Calls(log', "eeprom_write_high_score") = {}
  /\ Calls(log', "eeprom_cell_write") = {}
  /\ eeprom' = eeprom

\* The next handler is a loop() iteration in PLAYING that accepts a press with
\* the cursor outside the target zone.
MissNext ==
  pc = "run" /\ current_state = STATE_PLAYING /\ PressAccepted /\ ~InZone

\* C4: a miss with the new-high-score flag clear enters GAME_OVER with the
\* score unchanged; the score keeps its value on every iteration that stays
\* in GAME_OVER and becomes 0 in the iteration that leaves GAME_OVER for
\* ATTRACT; none of these iterations touches the persistent store, and no
\* iteration of a game writes the store while the flag is clear (the flag,
\* once set, stays set until the next game starts from ATTRACT).
C4_Step ==
  /\ (MissNext /\ ~is_new_high_score) =>
       /\ current_state' = STATE_GAME_OVER
       /\ current_score' = current_score
       /\ StoreUntouched
  /\ (current_state = STATE_GAME_OVER /\ current_state' = STATE_GAME_OVER) =>
       current_score' = current_score /\ StoreUntouched
  /\ (current_state = STATE_GAME_OVER /\ current_state' # STATE_GAME_OVER) =>
       /\ Took(STATE_GAME_OVER, STATE_ATTRACT)'
       /\ current_score' = 0
       /\ StoreUntouched
  /\ (pc = "run" /\ ~is_new_high_score) => StoreUntouched
  /\ (pc = "run" /\ is_new_high_score /\ ~is_new_high_score') =>
       current_state = STATE_ATTRACT
C4_MissWithoutHighScore == [][C4_Step]_vars
C4_Witness ==
  /\ current_state = STATE_GAME_OVER
  /\ current_score = BULLSEYE_SCORE
  /\ Calls(log, "game_transition_to") = {}
  /\ flash_count >= 2

\* C5: a miss with the new-high-score flag set calls eeprom_write_high_score
\* exactly once, with the in-memory high score, while the state is still
\* PLAYING and before the transition starts, and then enters CELEBRATION with
\* the record of that score stored; every other iteration (hits included)
\* leaves the store untouched; the flag is raised only by a hit whose score
\* exceeds the high score.
C5_Step ==
  LET W == Calls(log', "eeprom_write_high_score")
  IN /\ (MissNext /\ is_new_high_score) =>
          /\ Cardinality(W) = 1
          /\ \A i \in W :
               /\ log'[i].n = high_score
               /\ log'[i].cur = STATE_PLAYING
               /\ \A j \in Calls(log', "game_transition_to") : i < j
          /\ current_state' = STATE_CELEBRATION
          /\ high_score' = high_score
          /\ eeprom' = RecordOf(high_score)
     /\ (pc = "run" /\ ~(MissNext /\ is_new_high_score)) => StoreUntouched
     /\ (pc = "run" /\ ~is_new_high_score /\ is_new_high_score') =>
          /\ current_state = STATE_PLAYING /\ PressAccepted /\ InZone
          /\ current_score' > high_score
          /\ high_score' = current_score'
C5_MissWithHighScoreSavesOnce == [][C5_Step]_vars
C5_Witness ==
  /\ Took(STATE_PLAYING, STATE_CELEBRATION)
  /\ Cardinality(Calls(log, "eeprom_write_high_score")) = 1
  /\ Calls(log, "eeprom_cell_write") # {}
  /\ high_score = 2 * BULLSEYE_SCORE
  /\ eeprom = RecordOf(2 * BULLSEYE_SCORE)

\* C6: RESULT records the clock T of its entry and keeps it; a loop()
\* iteration in RESULT whose clock is below T + 300 stays in RESULT, one whose
\* clock is at or after T + 300 enters PLAYING, whatever the pin reads.
C6_Step ==
  /\ (current_state # STATE_RESULT /\ current_state' = STATE_RESULT) =>
       state_entry_time' = now'
  /\ (current_state = STATE_RESULT /\ current_state' = STATE_RESULT) =>
       state_entry_time' = state_entry_time
  /\ current_state = STATE_RESULT =>
       IF Ms(now') < Ms(state_entry_time) + RESULT_DWELL_MS
       THEN current_state' = STATE_RESULT
       ELSE current_state' = STATE_PLAYING
C6_ResultDwell == [][C6_Step]_vars
C6_Witness ==
  /\ Took(STATE_RESULT, STATE_PLAYING)
  /\ Ms(now) = Ms(state_entry_time) + RESULT_DWELL_MS
  /\ pin = LOW

\* The state of the animation engine right after the animation_update() call
\* of the next loop() iteration.
AnimAfterAdvance(L) == {L[i].st : i \in Calls(L, "animation_update")}

\* C7: the lose animation is active whenever the controller is in GAME_OVER
\* before an iteration; an iteration in GAME_OVER after whose animation
\* advance the animation is still active stays in GAME_OVER, and the
\* iteration whose advance makes the engine idle enters ATTRACT; the button is
\* not polled in GAME_OVER, so no press is accepted and the edge detector is
\* left as it was while the state lasts.
C7_Step ==
  current_state = STATE_GAME_OVER =>
    /\ anim_state = ANIM_GAME_OVER
    /\ Cardinality(AnimAfterAdvance(log')) = 1
    /\ \A a \in AnimAfterAdvance(log') :
         /\ a # ANIM_IDLE => current_state' = STATE_GAME_OVER
         /\ a = ANIM_IDLE => current_state' = STATE_ATTRACT
         /\ anim_state' = a
    /\ Calls(log', "press") = {}
    /\ current_state' = STATE_GAME_OVER =>
         /\ last_button_state' = last_button_state
         /\ last_debounce_time' = last_debounce_time
C7_GameOverWaitsForAnimation == [][C7_Step]_vars
C7_Witness ==
  /\ Took(STATE_GAME_OVER, STATE_ATTRACT)
  /\ anim_state = ANIM_IDLE
  /\ pin = LOW

\* C8: CELEBRATION records the clock T of its entry and keeps it; an
\* iteration in CELEBRATION whose clock is below T + 2000 stays in
\* CELEBRATION, one whose clock is at or after T + 2000 enters ATTRACT,
\* whatever the pin reads and whether or not the win animation is still
\* active.
C8_Step ==
  /\ (current_state # STATE_CELEBRATION
      /\ current_state' = STATE_CELEBRATION) => state_entry_time' = now'
  /\ (current_state = STATE_CELEBRATION
      /\ current_state' = STATE_CELEBRATION) =>
       state_entry_time' = state_entry_time
  /\ current_state = STATE_CELEBRATION =>
       IF Ms(now') < Ms(state_entry_time) + CELEBRATION_DWELL_MS
       THEN current_state' = STATE_CELEBRATION
       ELSE current_state' = STATE_ATTRACT
C10_Step ==
  /\ current_position \in 0..(NUM_LEDS - 1)
  /\ current_position' \in 0..(NUM_LEDS - 1)
  /\ chase_direction \in {1, -1}
  /\ IF Calls(log', "move") = {}
     THEN current_position' = current_position
          /\ chase_direction' = chase_direction
     ELSE /\ Cardinality(Calls(log', "move")) = 1
          /\ current_position' = current_position + chase_direction
          /\ chase_direction' =
               IF current_position' = 0 THEN 1
               ELSE IF current_position' = NUM_LEDS - 1 THEN -1
               ELSE chase_direction
C10_CursorBounces == [][C10_Step]_vars
C10_Witness ==
  /\ Calls(log, "move") # {}
  /\ current_position = 0
  /\ chase_direction = 1

\* The clock value at which the exploration stops.
HorizonMs == Horizon * TickMs

\* The light toggles the lose animation still has to perform: it ends on the
\* rising edge that makes flash_count reach GAME_OVER_LED_FLASH_COUNT.
TogglesLeft ==
  2 * (GAME_OVER_LED_FLASH_COUNT - flash_count)
    - (IF flash_state THEN 0 ELSE 1)

\* Under steady scheduling a toggle comes less than one clock step after it
\* is due.
ToggleSpan == GAME_OVER_LED_FLASH_DURATION + TickMs

\* C9: with loop() called forever and the clock advancing, whatever the
\* button does, every RESULT is followed by PLAYING, every CELEBRATION by
\* ATTRACT and every GAME_OVER by ATTRACT, provided the dwell (or the rest of
\* the lose animation) ends within the explored horizon.
C9_DwellStatesEnd ==
  /\ (current_state = STATE_RESULT
      /\ Ms(state_entry_time) + RESULT_DWELL_MS <= HorizonMs)
       ~> (current_state = STATE_PLAYING)
  /\ (current_state = STATE_CELEBRATION
      /\ Ms(state_entry_time) + CELEBRATION_DWELL_MS <= HorizonMs)
       ~> (current_state = STATE_ATTRACT)
  /\ (current_state = STATE_GAME_OVER
      /\ Ms(led_last_update) + TogglesLeft * ToggleSpan <= HorizonMs)
       ~> (current_state = STATE_ATTRACT)
C9_Witness ==
  /\ Took(STATE_GAME_OVER, STATE_ATTRACT)
  /\ anim_state = ANIM_IDLE
  /\ flash_count = 0
  /\ Ms(now) <= HorizonMs

\* C11: the chase speed always lies in [MIN_CHASE_SPEED,
\* INITIAL_CHASE_SPEED]; an iteration that does not end in ATTRACT never
\* raises it; the speed goes down only in a hit (PLAYING to RESULT), and a
\* hit at speed s leaves max(MIN_CHASE_SPEED, s - SPEED_DECREASE); the speed
\* is INITIAL_CHASE_SPEED whenever an iteration ends in ATTRACT and whenever
\* PLAYING is entered from ATTRACT.
C11_Step ==
  /\ chase_speed \in MIN_CHASE_SPEED..INITIAL_CHASE_SPEED
  /\ chase_speed' \in MIN_CHASE_SPEED..INITIAL_CHASE_SPEED
  /\ current_state' # STATE_ATTRACT => chase_speed' <= chase_speed
  /\ chase_speed' < chase_speed => Took(STATE_PLAYING, STATE_RESULT)'
  /\ Took(STATE_PLAYING, STATE_RESULT)' =>
       chase_speed' = IF chase_speed - SPEED_DECREASE >= MIN_CHASE_SPEED
                      THEN chase_speed - SPEED_DECREASE
                      ELSE MIN_CHASE_SPEED
  /\ current_state' = STATE_ATTRACT => chase_speed' = INITIAL_CHASE_SPEED
  /\ Took(STATE_ATTRACT, STATE_PLAYING)' => chase_speed' = INITIAL_CHASE_SPEED
C11_SpeedBounded == [][C11_Step]_vars
C11_Witness ==
  /\ Took(STATE_PLAYING, STATE_RESULT)
  /\ chase_speed = MIN_CHASE_SPEED
  /\ current_score = 16 * BULLSEYE_SCORE

\* C12: while a game is in progress (PLAYING or RESULT, up to the miss that
\* ends it) the current score is non-negative and no iteration lowers it,
\* however many hits came before.
C12_ScoreNeverDecreases ==
  [][(pc = "run" /\ current_state \in {STATE_PLAYING, STATE_RESULT})
       => (current_score' >= 0 /\ current_score' >= current_score)]_vars

\* C13: an iteration that enters PLAYING from ATTRACT ends with the current
\* score 0 and the new-high-score flag false; every iteration in RESULT,
\* the one that enters PLAYING included, leaves the current score, the flag
\* and the chase speed as the hit left them.
C13_Step ==
  /\ Took(STATE_ATTRACT, STATE_PLAYING)' =>
       current_score' = 0 /\ ~is_new_high_score'
  /\ (pc = "run" /\ current_state = STATE_RESULT) =>
       /\ current_state' \in {STATE_RESULT, STATE_PLAYING}
       /\ current_score' = current_score
       /\ is_new_high_score' = is_new_high_score
       /\ chase_speed' = chase_speed
C13_NewGameStartsClean == [][C13_Step]_vars
C13_Witness ==
  /\ Took(STATE_ATTRACT, STATE_PLAYING)
  /\ current_score = 0
  /\ ~is_new_high_score
  /\ high_score > BULLSEYE_SCORE
  /\ eeprom = RecordOf(high_score)

\* C14: no loop() iteration lowers the in-memory high score; an iteration
\* changes it only by a hit in PLAYING whose resulting current score is
\* strictly greater than it, and it then equals that score and the
\* new-high-score flag is set; a hit whose resulting score is at most the
\* high score (a tie included) leaves the high score and the flag as they
\* were.
C14_Step ==
  pc = "run" =>
    /\ high_score' >= high_score
    /\ high_score' # high_score =>
         /\ current_state = STATE_PLAYING
         /\ Took(STATE_PLAYING, STATE_RESULT)'
         /\ current_score' > high_score
    /\ Took(STATE_PLAYING, STATE_RESULT)' =>
         IF current_score' > high_score
         THEN high_score' = current_score' /\ is_new_high_score'
         ELSE /\ high_score' = high_score
              /\ is_new_high_score' = is_new_high_score
C14_HighScoreMonotone == [][C14_Step]_vars
C14_Witness ==
  /\ Took(STATE_PLAYING, STATE_RESULT)
  /\ current_score = BULLSEYE_SCORE
  /\ high_score = current_score
  /\ ~is_new_high_score

\* The score passed to the last eeprom_write_high_score.
SavedScore == log[1].n

\* C15: eeprom_read_high_score() directly after eeprom_write_high_score(v)
\* (after one save or two) returns the v of the last save, for every v in
\* 0..65535 and whatever the four cells held before.
C15_Step ==
  (pc \in {"saved", "resaved"} /\ pc' = "loaded") =>
    /\ SavedScore \in 0..(U16 - 1)
    /\ high_score' = SavedScore
C15_SaveLoadRoundTrip == [][C15_Step]_vars
C15_Witness ==
  /\ pc = "loaded"
  /\ log # <<>>
  /\ Cardinality(Calls(log, "eeprom_cell_write")) = 4
  /\ SavedScore = U16 - 1
  /\ high_score = U16 - 1

\* The bit positions (cell, bit) in which records r and q differ.
BitsApart(r, q) ==
  {<<c, k>> \in (1..4) \X (0..7) :
     (r[c] \div (2 ^ k)) % 2 # (q[c] \div (2 ^ k)) % 2}

\* C16: when exactly one of the 32 bits of the record written by
\* eeprom_write_high_score(v) has been inverted, eeprom_read_high_score()
\* returns 0.
C16_Step ==
  /\ pc' = "flipped" =>
       Cardinality(BitsApart(eeprom', RecordOf(SavedScore))) = 1
  /\ (pc = "flipped" /\ pc' = "loaded") => high_score' = 0
C16_SingleBitFlipDetected == [][C16_Step]_vars
C16_Witness ==
  /\ pc = "loaded"
  /\ log # <<>>
  /\ SavedScore = U16 - 1
  /\ BitsApart(eeprom, RecordOf(SavedScore)) = {<<2, 7>>}
  /\ high_score = 0

\* The bits set in byte b.
BitsOf(b) == {k \in 0..7 : (b \div (2 ^ k)) % 2 = 1}

\* Byte d is a XOR b XOR c: a bit of d is set exactly when an odd number of
\* the corresponding bits of a, b and c are.
IsXorOf(d, a, b, c) ==
  \A k \in 0..7 :
    (k \in BitsOf(d)) <=>
      (Cardinality({x \in {<<1, a>>, <<2, b>>, <<3, c>>} :
                      k \in BitsOf(x[2])}) % 2 = 1)

\* C17: for any contents of the four cells eeprom_read_high_score() returns
\* byte0 + 256 * byte1 when byte2 is EEPROM_MAGIC_BYTE and byte3 is
\* byte0 XOR byte1 XOR byte2, and 0 otherwise; it writes no cell and leaves
\* the record as it was.
C17_Step ==
  pc' = "loaded" =>
    /\ high_score' =
         IF /\ eeprom[3] = EEPROM_MAGIC_BYTE
            /\ IsXorOf(eeprom[4], eeprom[1], eeprom[2], eeprom[3])
         THEN eeprom[1] + U8 * eeprom[2]
         ELSE 0
    /\ eeprom' = eeprom
    /\ log' = log
C17_LoadIsTotal == [][C17_Step]_vars
C17_Witness ==
  /\ pc = "loaded"
  /\ log = <<>>
  /\ eeprom = <<91, 254, EEPROM_MAGIC_BYTE, 0>>
  /\ high_score = 91 + U8 * 254

\* The cells the last save physically wrote.
CellsWritten(L) == {L[i].n : i \in Calls(L, "eeprom_cell_write")}

\* C18: a save physically writes exactly the cells whose stored byte differs
\* from the byte of the record being saved, each once, and a second save of
\* the same score directly after the first writes no cell.
C18_Step ==
  /\ pc' \in {"saved", "resaved"} =>
       /\ eeprom' = RecordOf(SavedScore')
       /\ CellsWritten(log') = {a \in 0..3 : eeprom[a + 1] # eeprom'[a + 1]}
       /\ Cardinality(Calls(log', "eeprom_cell_write")) =
            Cardinality(CellsWritten(log'))
  /\ (pc = "saved" /\ pc' = "resaved" /\ SavedScore' = SavedScore) =>
       Calls(log', "eeprom_cell_write") = {}
C18_WriteIfChanged == [][C18_Step]_vars
C18_Witness ==
  /\ pc = "resaved"
  /\ SavedScore = U16 - 1
  /\ eeprom = RecordOf(U16 - 1)
  /\ Calls(log, "eeprom_cell_write") = {}

\* The clock (ms) of the last call that returned true.
LastAccepted == log[Len(log)].n

\* C19: with no button_clear_state() in between, a call of
\* button_just_pressed() that returns true comes at least DEBOUNCE_MS after
\* the previous one that did, whatever the raw levels were; and a call that
\* reads pressed, after a call that read not pressed, at least DEBOUNCE_MS
\* after the last call that returned true, returns true.
C19_Step ==
  (pc = "free" /\ log # <<>>) =>
    /\ Len(log') = Len(log) + 1 => Ms(now') - LastAccepted >= DEBOUNCE_MS
    /\ (/\ log' # <<>>
        /\ pin = HIGH
        /\ pin' = LOW
        /\ Ms(now') - LastAccepted >= DEBOUNCE_MS)
         => (Len(log') = Len(log) + 1 /\ LastAccepted' = Ms(now'))
C19_DebounceLockout == [][C19_Step]_vars
C19_Witness ==
  /\ pc = "free"
  /\ Len(log) = 3
  /\ log[2].n - log[1].n < 2 * DEBOUNCE_MS
  /\ log[3].n - log[2].n < 2 * DEBOUNCE_MS

\* C20: during one physical press (contacts open, bounce on the make, closed,
\* bounce on the release, released), polled once per clock step,
\* button_just_pressed() returns true at most once, and exactly once by the
\* time the button is released.
C20_OnePressOneEvent ==
  /\ pc \in {"open", "make1", "make2", "closed", "break1", "break2",
             "released"} => Len(log) <= 1
  /\ pc = "released" => Len(log) = 1

\* The last iteration took one of the transitions ATTRACT to PLAYING, RESULT
\* to PLAYING, CELEBRATION to ATTRACT or GAME_OVER to ATTRACT while the raw
\* level read pressed.
HeldAcross ==
  /\ pin = LOW
  /\ \/ Took(STATE_ATTRACT, STATE_PLAYING)
     \/ Took(STATE_RESULT, STATE_PLAYING)
     \/ Took(STATE_CELEBRATION, STATE_ATTRACT)
     \/ Took(STATE_GAME_OVER, STATE_ATTRACT)

\* C21: a button held across one of these transitions leaves the edge
\* detector with pressed as its last level; while the detector's last level
\* is pressed and the raw level keeps reading pressed no iteration accepts a
\* press and the last level stays pressed; so no press is accepted after the
\* transition until the raw level has read not pressed.
C21_Step ==
  /\ HeldAcross' => last_button_state'
  /\ (pc = "run" /\ last_button_state /\ pin' = LOW) =>
       (Calls(log', "press") = {} /\ last_button_state')
  /\ (HeldAcross /\ pin' = LOW) => Calls(log', "press") = {}
C21_HeldButtonNoPress == [][C21_Step]_vars
C21_Witness ==
  /\ HeldAcross
  /\ Took(STATE_CELEBRATION, STATE_ATTRACT)
  /\ last_button_state
  /\ Calls(log, "press") = {}

\* C22: every loop() iteration, in every state and for either pin level,
\* calls animation_update() exactly once and the update action of the current
\* state exactly once, directly after it; an animation is started only after
\* the animation_update() call of the iteration, and the iteration that
\* starts it ends with the animation at step 0, its timer at the clock of the
\* iteration, and no tone or light step performed after the start.
C22_Step ==
  pc = "run" =>
    /\ Cardinality(Calls(log', "animation_update")) = 1
    /\ Cardinality(Calls(log', "update")) = 1
    /\ \A i \in Calls(log', "animation_update") :
         /\ i + 1 \in Calls(log', "update")
         /\ log'[i + 1].st = current_state
         /\ \A k \in Calls(log', "animation_start") :
              /\ k > i + 1
              /\ \A j \in DOMAIN log' :
                   j > k => log'[j].ev \notin {"tone", "led_on"}
    /\ Calls(log', "animation_start") # {} =>
         /\ anim_step' = 0
         /\ anim_last_update' = now'
         /\ anim_state' # ANIM_IDLE
         /\ \A k \in Calls(log', "animation_start") : log'[k].st = anim_state'
C22_AnimationAdvancesFirst == [][C22_Step]_vars
C22_Witness ==
  /\ pc = "run"
  /\ Took(STATE_PLAYING, STATE_CELEBRATION)
  /\ Calls(log, "animation_start") # {}
  /\ anim_state = ANIM_CELEBRATION
  /\ anim_step = 0
  /\ led_pos = 0

\* The variables of the animation engine.
EngineVars ==
  <<anim_state, anim_step, anim_last_update, led_sweep, led_pos, flash_count,
    flash_state, led_last_update>>

\* The next step is a call of animation_update(); Returned is its result.
Ticking == pc = "anim" /\ Calls(log', "animation_update") # {}
Returned == log'[Len(log')].n = 1

\* C23: a call of animation_update() while the kind is IDLE returns true,
\* changes no variable of the engine, and emits no tone and writes no light
\* (the call log holds nothing but the call's result).
C23_Step ==
  (Ticking /\ anim_state = ANIM_IDLE) =>
    /\ Returned
    /\ EngineVars' = EngineVars
    /\ Len(log') = 1
C23_IdleUpdateIsNoOp == [][C23_Step]_vars
C23_Witness ==
  /\ pc = "anim"
  /\ anim_state = ANIM_IDLE
  /\ anim_step = 3
  /\ flash_state
  /\ log = <<Ev("animation_update", ANIM_IDLE, STATE_ATTRACT, 1)>>
  /\ Ms(now) > Ms(led_last_update)

\* Every channel of the active kind is exhausted by the next call: the hit
\* animation has played 3 notes; the win animation has played 5 notes and
\* completed CELEBRATION_SWEEPS sweeps (before the call, or in it by moving
\* off the last light of the last sweep); the lose animation has played 3
\* notes and the call switches the lights on for the
\* GAME_OVER_LED_FLASH_COUNT-th time.
Exhausted ==
  CASE anim_state = ANIM_BULLSEYE -> anim_step' = 3
    [] anim_state = ANIM_CELEBRATION ->
         /\ anim_step' = 5
         /\ \/ led_sweep = CELEBRATION_SWEEPS
            \/ /\ led_sweep = CELEBRATION_SWEEPS - 1
               /\ led_pos = NUM_LEDS - 1
               /\ Calls(log', "led_off") # {}
    [] anim_state = ANIM_GAME_OVER ->
         /\ anim_step' = 3
         /\ flash_count = GAME_OVER_LED_FLASH_COUNT - 1
         /\ ~flash_state
         /\ Cardinality(Calls(log', "led_on")) = NUM_LEDS
    [] OTHER -> FALSE

\* C24: a call of animation_update() while a kind is active returns true
\* exactly when it sets the kind to IDLE, it sets the kind to IDLE only when
\* every channel of the kind is exhausted by that call, and otherwise it
\* leaves the kind as it is; for every spacing of the calls.
C24_Step ==
  (Ticking /\ anim_state # ANIM_IDLE) =>
    /\ Returned <=> anim_state' = ANIM_IDLE
    /\ anim_state' = ANIM_IDLE => Exhausted
    /\ anim_state' # ANIM_IDLE => anim_state' = anim_state
C24_IdleOnlyWhenExhausted == [][C24_Step]_vars
C24_Witness ==
  /\ pc = "anim"
  /\ anim_state = ANIM_IDLE
  /\ anim_step = 5
  /\ Calls(log, "led_clear_all") # {}
  /\ log[Len(log)].n = 1
  /\ Ms(now) > 1000

\* The clock of the next call, in ms since the animation was started.
SinceStart == Ms(now') - Ms(state_entry_time)

\* The light toggles the lose animation has performed.
Toggles == IF flash_state THEN 2 * flash_count - 1 ELSE 2 * flash_count

\* C28: for an animation started at clock S, a call of animation_update()
\* performs the next step of a channel whose steps last d ms exactly when its
\* clock is at or after S + k * d, k being the number of that step, however
\* the calls are spaced (the notes of the hit animation, the notes and the
\* light toggles of the lose animation).
C28_Step ==
  /\ (Ticking /\ anim_state = ANIM_BULLSEYE) =>
       (anim_step' > anim_step
          <=> SinceStart >= (anim_step + 1) * DURATION_BULLSEYE_NOTE)
  /\ (Ticking /\ anim_state = ANIM_GAME_OVER /\ anim_step < 3) =>
       (anim_step' > anim_step
          <=> SinceStart >= (anim_step + 1) * DURATION_GAME_OVER_NOTE)
  /\ (Ticking /\ anim_state = ANIM_GAME_OVER) =>
       (flash_state' # flash_state
          <=> SinceStart >= (Toggles + 1) * GAME_OVER_LED_FLASH_DURATION)
C28_ChannelsDoNotDrift == [][C28_Step]_vars

\* C29: the call of animation_update() that ends the lose animation comes at
\* least 2 * GAME_OVER_LED_FLASH_COUNT * GAME_OVER_LED_FLASH_DURATION ms
\* (1500 ms) after its start, and it does not switch the lights on: the last
\* on phase has lasted its GAME_OVER_LED_FLASH_DURATION before the lights go
\* off for good.
C29_Step ==
  (Ticking /\ anim_state = ANIM_GAME_OVER /\ anim_state' = ANIM_IDLE) =>
    /\ SinceStart >=
         2 * GAME_OVER_LED_FLASH_COUNT * GAME_OVER_LED_FLASH_DURATION
    /\ Calls(log', "led_on") = {}
C29_FiveFullFlashes == [][C29_Step]_vars

\* The time from the recorded clock value to the clock of the next
\* iteration on a clock that does not wrap, in ms.
Since(then) == Rel(now') - Rel(then)

\* The calls named e that animation_update() made in the next iteration.
EngineCalls(e) ==
  {i \in Calls(log', e) : \A j \in Calls(log', "animation_update") : i < j}

\* C25: with the millisecond counter wrapping from 2^32 - 1 to 0 during the
\* game, every elapsed-time check answers as on a clock that does not wrap:
\* RESULT ends exactly when 300 ms have passed since it was entered and
\* CELEBRATION when 2000 ms have, the cursor moves exactly when chase_speed ms
\* have passed since its last move, a rising edge of the button is accepted
\* exactly when 50 ms have passed since the last accepted press or clear, and
\* each animation channel performs its step exactly when the step's duration
\* has passed since the channel's last step.
C25_Step ==
  /\ current_state = STATE_RESULT =>
       (current_state' # STATE_RESULT
          <=> Since(state_entry_time) >= RESULT_DWELL_MS)
  /\ current_state = STATE_CELEBRATION =>
       (current_state' # STATE_CELEBRATION
          <=> Since(state_entry_time) >= CELEBRATION_DWELL_MS)
  /\ current_state \in {STATE_ATTRACT, STATE_PLAYING} =>
       (Calls(log', "move") # {} <=> Since(last_chase_update) >= chase_speed)
  /\ (current_state \in {STATE_ATTRACT, STATE_PLAYING}
        /\ pin' = LOW /\ ~last_button_state) =>
       (Calls(log', "press") # {}
          <=> Since(last_debounce_time) >= DEBOUNCE_MS)
  /\ anim_state = ANIM_BULLSEYE =>
       (EngineCalls("tone") # {}
          <=> Since(anim_last_update) >= DURATION_BULLSEYE_NOTE)
  /\ (anim_state = ANIM_GAME_OVER /\ anim_step < 3) =>
       (EngineCalls("tone") # {}
          <=> Since(anim_last_update) >= DURATION_GAME_OVER_NOTE)
  /\ anim_state = ANIM_GAME_OVER =>
       (EngineCalls("led_on") \cup EngineCalls("led_clear_all") # {}
          <=> Since(led_last_update) >= GAME_OVER_LED_FLASH_DURATION)
  /\ (anim_state = ANIM_CELEBRATION /\ anim_step \in 1..4) =>
       (EngineCalls("tone") # {}
          <=> Since(anim_last_update) >= celebration_durations[anim_step] + 50)
  /\ (anim_state = ANIM_CELEBRATION /\ led_sweep < CELEBRATION_SWEEPS) =>
       (EngineCalls("led_off") # {}
          <=> Since(led_last_update) >= CELEBRATION_LED_DELAY)
C25_WrapSafeElapsedTime == [][C25_Step]_vars

\* The RESULT pause was entered before the counter wrapped and ended after.
C25_Witness ==
  /\ Took(STATE_RESULT, STATE_PLAYING)
  /\ Rel(now) \in 0..(RESULT_DWELL_MS - 1)

\* The positions next to the target zone, and the remaining red positions.
AdjacentPositions == {TARGET_ZONE_START - 1, TARGET_ZONE_END + 1}
OuterPositions ==
  (0..(NUM_LEDS - 1)) \ ((TARGET_ZONE_START - 1)..(TARGET_ZONE_END + 1))

\* The next iteration is in PLAYING and accepts a press.
PlayingPress == pc = "run" /\ current_state = STATE_PLAYING /\ PressAccepted

\* C26 as claimed: an accepted press in PLAYING with the light on position 2
\* or 5 adds ADJACENT_SCORE (5) to the score, one on an outer position adds
\* OUTER_SCORE (1), and the game goes on (RESULT) in both cases; a press on a
\* green position adds BULLSEYE_SCORE (10).
C26_Claimed_Step ==
  PlayingPress =>
    /\ current_state' = STATE_RESULT
    /\ current_score' - current_score =
         (CASE current_position' \in AdjacentPositions -> ADJACENT_SCORE
            [] current_position' \in OuterPositions -> OUTER_SCORE
            [] OTHER -> BULLSEYE_SCORE)
C26_GraduatedScoring == [][C26_Claimed_Step]_vars

\* C26: scoring is binary. An accepted press in PLAYING with the light on a
\* position adjacent to the target zone (2 or 5) or on an outer position
\* scores nothing and ends the game (CELEBRATION or GAME_OVER); only the green
\* positions score, BULLSEYE_SCORE (10), the game continuing in RESULT.
C26_Step ==
  PlayingPress =>
    LET gain == (current_score' - current_score) % U16
    IN CASE current_position' \in AdjacentPositions \cup OuterPositions ->
              /\ gain = 0
              /\ current_state' \in {STATE_CELEBRATION, STATE_GAME_OVER}
         [] OTHER ->
              /\ gain = BULLSEYE_SCORE
              /\ current_state' = STATE_RESULT
C26_BinaryScoring == [][C26_Step]_vars

\* A press on a position adjacent to the target zone has ended a game that
\* had points.
C26_Witness ==
  /\ Took(STATE_PLAYING, STATE_GAME_OVER) \/ Took(STATE_PLAYING, STATE_CELEBRATION)
  /\ current_position \in AdjacentPositions
  /\ current_score >= BULLSEYE_SCORE

\* C27: animation_start_bullseye(), animation_start_celebration() and
\* animation_start_game_over() are only called while the animation engine is
\* IDLE, as the iteration's animation_update() left it: no animation is
\* abandoned by the start of another.
C27_Step ==
  Calls(log', "animation_start") # {} => AnimAfterAdvance(log') = {ANIM_IDLE}
C27_StartOnlyWhenIdle == [][C27_Step]_vars

\* C30: the current score is 0 in every state whose game state is ATTRACT,
\* whichever way ATTRACT was entered (at power-on, from GAME_OVER or from
\* CELEBRATION).
C30_ScoreZeroInAttract == current_state = STATE_ATTRACT => current_score = 0

\* C31: hardware_init() leaves last_button_state equal to the pressed-level
\* of the button (true exactly when the pin reads LOW), and when the button is
\* held at hardware_init() and still held at the first button_just_pressed()
\* call after it, that call does not report a press.
C31_Step ==
  /\ pc = "boot" => last_button_state' = (pin' = LOW)
  /\ (pc = "init" /\ pin = LOW /\ pin' = LOW) => log' = log
C31_HeldAtBootNoPress == [][C31_Step]_vars

\* C32: animation_update() returns true only in the call in which an
\* animation completes, and false both while an animation is playing and
\* when the engine is idle.
C32_Step ==
  Ticking => (Returned <=> (anim_state # ANIM_IDLE /\ anim_state' = ANIM_IDLE))
C32_TrueOnlyOnCompletion == [][C32_Step]_vars

\* The engine variables an animation of the given kind reads or writes.
Uses(kind) ==
  CASE kind = ANIM_BULLSEYE -> {"anim_state", "anim_step", "anim_last_update"}
    [] kind = ANIM_CELEBRATION ->
         {"anim_state", "anim_step", "anim_last_update", "led_sweep",
          "led_pos", "led_last_update"}
    [] kind = ANIM_GAME_OVER ->
         {"anim_state", "anim_step", "anim_last_update", "flash_count",
          "flash_state", "led_last_update"}
    [] OTHER -> {"anim_state"}

\* The engine's variables, by name.
Engine ==
  [anim_state |-> anim_state, anim_step |-> anim_step,
   anim_last_update |-> anim_last_update, led_sweep |-> led_sweep,
   led_pos |-> led_pos, flash_count |-> flash_count,
   flash_state |-> flash_state, led_last_update |-> led_last_update]

\* Engine a and machine state b agree on the variables that kind uses.
Same(kind, a, b) == \A f \in Uses(kind) : a[f] = b[f]

\* The machine at clock t with the engine as at power-on, and with the
\* engine variables that kind uses taken from machine state m.
PowerOnAt(t) == [Static EXCEPT !.now = t]
Twin(kind, m) ==
  [f \in DOMAIN m |-> IF f \in Uses(kind) \/ f = "now" THEN m[f] ELSE Static[f]]

\* The calls the next animation_update() makes: the log without the entry
\* of the call itself.
Outputs(L) == SubSeq(L, 1, Len(L) - 1)

\* C33: animation_start_X() in any engine state leaves the kind X and the
\* engine as a start from the power-on engine at the same clock leaves it, in
\* every variable kind X uses; and every following animation_update() call
\* makes the tone and light calls, returns the result and leaves the values
\* that the same call makes from a run whose engine differs in everything
\* kind X does not use. So the outputs after the start depend only on the
\* clock values of the calls, not on what was active before the start.
C33_Step ==
  /\ (pc = "anim" /\ pc' = "over") =>
       /\ anim_state' \in {ANIM_BULLSEYE, ANIM_CELEBRATION, ANIM_GAME_OVER}
       /\ \E twin \in {animation_start_bullseye(PowerOnAt(now')),
                       animation_start_celebration(PowerOnAt(now')),
                       animation_start_game_over(PowerOnAt(now'))} :
            /\ twin.anim_state = anim_state'
            /\ \E after \in {Engine'} : Same(anim_state', after, twin)
  /\ (pc = "over" /\ pc' = "over") =>
       \E late \in {Twin(anim_state, [Machine EXCEPT !.now = now'])} :
         \E twin \in {animation_update(late)}, after \in {Engine'} :
           /\ Outputs(log') = twin.m.log
           /\ log'[Len(log')].n = (IF twin.ret THEN 1 ELSE 0)
           /\ Same(anim_state, after, twin.m)
C33_StartOverwrites == [][C33_Step]_vars

\* A hit animation started over a win animation in mid-sweep has completed.
C33_Witness ==
  /\ pc = "over"
  /\ anim_state = ANIM_IDLE
  /\ anim_step = 3
  /\ led_pos > 0
  /\ log[Len(log)].n = 1

\* C34: in every reachable state the current score is at most the in-memory
\* high score.
C34_ScoreAtMostHighScore == current_score <= high_score

\* A game has passed the stored high score: the score has pulled the high
\* score up with it.
C34_Witness ==
  /\ current_state = STATE_RESULT
  /\ eeprom = RecordOf(BULLSEYE_SCORE)
  /\ current_score = 2 * BULLSEYE_SCORE
  /\ high_score = current_score

\* C35: after game_init(), whenever the state is ATTRACT, CELEBRATION or
\* GAME_OVER, eeprom_read_high_score() would return the in-memory high score
\* (the stored record is never corrupted in these runs); the two differ only
\* in PLAYING or RESULT.
C35_StoredMatchesHighScore ==
  (pc = "run" /\ current_state \in {STATE_ATTRACT, STATE_CELEBRATION,
                                    STATE_GAME_OVER}) =>
    eeprom_read_high_score(Machine) = high_score

\* Back in ATTRACT after a game that raised the high score from 10 to 20 and
\* saved it.
C35_Witness ==
  /\ pc = "run"
  /\ current_state = STATE_ATTRACT
  /\ high_score = 2 * BULLSEYE_SCORE
  /\ eeprom = RecordOf(high_score)

\* C36: when eeprom_write_high_score(v) is cut short after any prefix of its
\* four byte updates, over a valid record holding u, the following
\* eeprom_read_high_score() returns 0, u or v; it returns v after the complete
\* write and u when nothing was written.
C36_Step ==
  pc = "torn" =>
    LET u == high_score
        v == log[1].n
    IN /\ high_score' \in {0, u, v}
       /\ eeprom = RecordOf(v) => high_score' = v
       /\ eeprom = RecordOf(u) => high_score' = u
C36_TornWriteReadsOldNewOrZero == [][C36_Step]_vars

\* A write cut after two bytes has been read back as the new score: the low
\* and high byte changed and their XOR did not, so the old checksum fits.
C36_Witness ==
  /\ pc = "reloaded"
  /\ high_score = log[1].n
  /\ eeprom[4] # RecordOf(0)[4]
  /\ \E u \in SampleScores :
       /\ u # high_score
       /\ eeprom[4] = RecordOf(u)[4]
       /\ Interrupted([Static EXCEPT !.eeprom = RecordOf(u)], high_score, 2).eeprom
            = eeprom

\* C37: a loop() iteration runs the update action of exactly one state, the
\* state it starts in, and makes at most one state transition, inside that
\* update action; setup() makes exactly one transition. So the state entered
\* by a transition is the state at the end of the iteration, and its update
\* action first runs in a later iteration.
C37_Step ==
  LET L == log'
      T == Calls(L, "game_transition_to")
      U == Calls(L, "update")
  IN /\ Cardinality(T) <= 1
     /\ pc = "boot" => Cardinality(T) = 1 /\ U = {}
     /\ pc = "run" =>
          /\ Cardinality(U) = 1
          /\ \A i \in U : L[i].st = current_state /\ \A j \in T : i < j
     /\ \A i \in Calls(L, "enter") : L[i].st = current_state'
C37_OneTransitionPerTick == [][C37_Step]_vars

\* ATTRACT was entered from GAME_OVER in an iteration in which the cursor was
\* due to move, and the cursor has not moved: attract_update() has not run.
C37_Witness ==
  /\ Took(STATE_GAME_OVER, STATE_ATTRACT)
  /\ current_state = STATE_ATTRACT
  /\ Ms(now) - Ms(last_chase_update) >= chase_speed
  /\ Calls(log, "move") = {}

\* The next iteration moves the cursor; it enters PLAYING.
Moves == Calls(log', "move") # {}
EntersPlaying ==
  \E i \in Calls(log', "enter") : log'[i].st = STATE_PLAYING

\* C38: the cursor never moves early. last_chase_update is the clock of the
\* iteration that last moved the cursor or last entered PLAYING (or of
\* game_init): an iteration that does either sets it to its clock, any other
\* leaves it alone; an iteration moves the cursor at most once, and only when
\* at least chase_speed ms have passed since last_chase_update, however late
\* the iteration is. So two consecutive moves are at least chase_speed apart,
\* and after an entry into PLAYING the cursor rests for chase_speed ms.
C38_Step ==
  /\ pc = "boot" => last_chase_update' = now' /\ ~Moves
  /\ pc = "run" =>
       /\ Cardinality(Calls(log', "move")) <= 1
       /\ Moves => Ms(now') - Ms(last_chase_update) >= chase_speed
       /\ Moves =>
            current_position' \in {current_position - 1, current_position + 1}
       /\ last_chase_update' =
            (IF Moves \/ EntersPlaying THEN now' ELSE last_chase_update)
C38_CursorNeverMovesEarly == [][C38_Step]_vars

\* A playing_update() after a RESULT pause has left the cursor alone: the
\* chase timer was restarted by the entry into PLAYING (no move can have
\* followed the entry within MIN_CHASE_SPEED ms), and less than chase_speed ms
\* have passed since.
C38_Witness ==
  /\ current_state = STATE_PLAYING
  /\ \E i \in Calls(log, "update") : log[i].st = STATE_PLAYING
  /\ Calls(log, "move") = {}
  /\ chase_speed < INITIAL_CHASE_SPEED
  /\ Ms(last_chase_update) - Ms(state_entry_time) >= RESULT_DWELL_MS
  /\ Ms(last_chase_update) - Ms(state_entry_time)
       < RESULT_DWELL_MS + MIN_CHASE_SPEED
  /\ Ms(now) > Ms(last_chase_update)
  /\ Ms(now) - Ms(last_chase_update) < chase_speed

\* The cursor: position and direction.
Cursor == <<current_position, chase_direction>>

\* C39: an iteration in RESULT, CELEBRATION or GAME_OVER leaves the cursor's
\* position and direction as they are, and in ATTRACT and PLAYING they change
\* only by the iteration's cursor move: no state transition, the start of a
\* new game included, changes them after the move.
C39_Step ==
  pc = "run" =>
    /\ current_state \in {STATE_RESULT, STATE_CELEBRATION, STATE_GAME_OVER}
         => Cursor' = Cursor
    /\ ~Moves => Cursor' = Cursor
    /\ \A i \in Calls(log', "move") : current_position' = log'[i].n
    /\ chase_direction' # chase_direction =>
         current_position' \in {0, NUM_LEDS - 1}
C39_CursorOnlyMovesInAttractAndPlaying == [][C39_Step]_vars

\* A new game has started, after the game that was picked up ended, with the
\* light where attract mode left it, in or beyond the target zone.
C39_Witness ==
  /\ Took(STATE_ATTRACT, STATE_PLAYING)
  /\ current_score = 0
  /\ current_position >= TARGET_ZONE_START

\* The steps the active animation has yet to perform: notes (3 for hit, 5 for
\* win, 3 for lose), the light steps of the win animation
\* (CELEBRATION_SWEEPS sweeps of NUM_LEDS) and the light toggles of the lose
\* animation (the last of 2 * GAME_OVER_LED_FLASH_COUNT - 1 ends it).
Budget(kind) ==
  CASE kind = ANIM_BULLSEYE -> 3
    [] kind = ANIM_CELEBRATION -> 5 + CELEBRATION_SWEEPS * NUM_LEDS
    [] kind = ANIM_GAME_OVER -> 3 + (2 * GAME_OVER_LED_FLASH_COUNT - 1)
    [] OTHER -> 0
StepsDone ==
  CASE anim_state = ANIM_BULLSEYE -> anim_step
    [] anim_state = ANIM_CELEBRATION -> anim_step + led_sweep * NUM_LEDS + led_pos
    [] anim_state = ANIM_GAME_OVER -> anim_step + Toggles
    [] OTHER -> 0

\* C40: every started animation terminates. While an animation is active the
\* steps it has performed stay below its budget (3 for hit, 5 + 24 for win,
\* 3 + 9 for lose); a call of animation_update() never undoes a step, keeps
\* the kind or sets it to IDLE, and leaves an idle engine idle, so
\* animation_is_playing() is true on every call before the completion and
\* false on every call after it; and with the engine called every few ms and
\* the clock advancing, an active animation leads to IDLE.
C40_Step ==
  Ticking =>
    /\ anim_state = ANIM_IDLE =>
         anim_state' = ANIM_IDLE /\ ~animation_is_playing(Machine)
    /\ anim_state # ANIM_IDLE =>
         /\ animation_is_playing(Machine)
         /\ anim_state' \in {anim_state, ANIM_IDLE}
         /\ anim_state' = anim_state => StepsDone' >= StepsDone
         /\ Cardinality(EngineCalls("tone")) <= 1
C40_EveryAnimationTerminates ==
  /\ [][C40_Step]_vars
  /\ [](anim_state # ANIM_IDLE => StepsDone < Budget(anim_state))
  /\ (anim_state # ANIM_IDLE) ~> (anim_state = ANIM_IDLE)

\* The lose animation has ended with its ninth light toggle, the lights going
\* on for the fifth time.
C40_Witness ==
  /\ pc = "anim"
  /\ anim_state = ANIM_IDLE
  /\ anim_step = 3
  /\ flash_state
  /\ Cardinality(Calls(log, "led_on")) = NUM_LEDS
  /\ log[Len(log)].n = 1

====
